---- MODULE Spec2Model ----
(***************************************************************************)
(* A model of the mcp-zephyr server: the transport client (zephyr-client), *)
(* its pagination engine, the tool handlers and the call-tool dispatcher.  *)
(* One tool invocation is a small state machine: the code between two      *)
(* awaits runs as one step, a remote reply resumes the handler.            *)
(***************************************************************************)
EXTENDS Integers, Sequences, FiniteSets, TLC

VARIABLES
    inv,      \* the invocation in progress: tool, args, position, locals, outcome
    calls,    \* the requests this invocation handed to the HTTP layer, in order
    replies,  \* what the HTTP layer made of them, in order of arrival
    remote,   \* the remote service as this invocation finds it
    previous, \* the invocation delivered before this one, when it is kept
    pipelined \* a second invocation running while the first one waits

vars == <<inv, calls, replies, remote, previous, pipelined>>

(***************************************************************************)
(* Bounds of the model.                                                    *)
(***************************************************************************)
MaxItems == 5        \* size of a remote result set paged by getAllPaginated
MaxPageSize == 3     \* page sizes tried with getAllPaginated
MaxFetches == 7
MaxChanges == 1      \* page requests after which the remote stops answering

(***************************************************************************)
(* Program constants.                                                      *)
(***************************************************************************)
defaultMaxResults == 50
AllStepsPageSize == 100
MaxStepsPerRequest == 100
MsPerMinute == 60000
maxRetries == 3

(***************************************************************************)
(* JavaScript values. Strings are sequences of tokens (a token is a        *)
(* character or a word), so that template literals are concatenations and  *)
(* the key patterns can be matched token by token.                         *)
(***************************************************************************)
Undef == [t |-> "undefined"]
Null == [t |-> "null"]
Bool(b) == [t |-> "boolean", b |-> b]
Num(n) == [t |-> "number", n |-> n]
Str(s) == [t |-> "string", s |-> s]
Arr(a) == [t |-> "array", a |-> a]
Obj(o) == [t |-> "object", o |-> o]
\* a string that holds the JSON text of v
JsonStr(v) == [t |-> "string", json |-> v]
\* new Error(message), and the TypeError the engine raises
ErrorOf(message) == [t |-> "error", name |-> "Error", message |-> Str(message)]
TypeErrorOf(message) == [t |-> "error", name |-> "TypeError", message |-> Str(message)]

EmptyObj == Obj([k \in {} |-> Undef])

Nullish(v) == v.t \in {"undefined", "null"}

IsPlainStr(v) == v.t = "string" /\ "s" \in DOMAIN v

\* ToBoolean(v)
Truthy(v) ==
    CASE v.t = "undefined" -> FALSE
      [] v.t = "null" -> FALSE
      [] v.t = "boolean" -> v.b
      [] v.t = "number" -> v.n # 0
      [] v.t = "string" -> IF IsPlainStr(v) THEN v.s # <<>> ELSE TRUE
      [] OTHER -> TRUE

\* a || b
OrJS(a, b) == IF Truthy(a) THEN a ELSE b

\* v[k] for a v that is not null/undefined (those throw; callers test Nullish)
Get(v, k) ==
    IF v.t = "object" /\ k \in DOMAIN v.o THEN v.o[k]
    ELSE IF v.t = "array" /\ k = "length" THEN Num(Len(v.a))
    ELSE IF v.t = "error" /\ k = "message" THEN v.message
    ELSE Undef

\* v?.[k]
GetOpt(v, k) == IF Nullish(v) THEN Undef ELSE Get(v, k)

\* a >= b and a < b on numbers; a comparison with undefined (NaN) is false
GeJS(a, b) == a.t = "number" /\ b.t = "number" /\ a.n >= b.n
LtJS(a, b) == a.t = "number" /\ b.t = "number" /\ a.n < b.n

\* the value JSON text keeps of v: undefined properties are dropped, undefined
\* array elements become null, an Error has no enumerable property
RECURSIVE JsonValue(_)
JsonValue(v) ==
    CASE v.t = "object" ->
            Obj([k \in {j \in DOMAIN v.o : v.o[j].t # "undefined"} |-> JsonValue(v.o[k])])
      [] v.t = "array" ->
            Arr([i \in 1..Len(v.a) |->
                    IF v.a[i].t = "undefined" THEN Null ELSE JsonValue(v.a[i])])
      [] v.t = "error" -> Obj([k \in {} |-> Undef])
      [] OTHER -> v

\* JSON.stringify(v, null, 2)
JSONstringify(v) == JsonStr(JsonValue(v))

\* JSON.parse(text) succeeds on JSON text only
JSONparses(text) == text.t = "string" /\ "json" \in DOMAIN text
JSONparse(text) == text.json

\* the decimal digits of a number, one token per character
RECURSIVE NumToStr(_)
NumToStr(n) ==
    IF n < 0 THEN <<"-">> \o NumToStr(0 - n)
    ELSE IF n < 10 THEN <<ToString(n)>>
    ELSE NumToStr(n \div 10) \o <<ToString(n % 10)>>

\* parseInt of a string of decimal digits
RECURSIVE ParseInt(_)
ParseInt(s) ==
    IF s = <<>> THEN 0
    ELSE 10 * ParseInt(SubSeq(s, 1, Len(s) - 1))
         + (CHOOSE d \in 0..9 : ToString(d) = s[Len(s)])

\* String(v) inside a template literal
ToStr(v) ==
    CASE v.t = "undefined" -> <<"undefined">>
      [] v.t = "null" -> <<"null">>
      [] v.t = "number" -> NumToStr(v.n)
      [] v.t = "string" /\ "s" \in DOMAIN v -> v.s
      [] OTHER -> <<"[object]">>

Min(a, b) == IF a < b THEN a ELSE b
Max(a, b) == IF a > b THEN a ELSE b

\* f overlaid with g (object spread {...f, ...g})
Spread(f, g) ==
    [k \in DOMAIN f \cup DOMAIN g |-> IF k \in DOMAIN g THEN g[k] ELSE f[k]]

(***************************************************************************)
(* Letter case of the tokens the program converts.                         *)
(***************************************************************************)
LowerTok(c) ==
    CASE c = "GET" -> "get" [] c = "POST" -> "post" [] c = "PUT" -> "put"
      [] c = "Given" -> "given" [] c = "When" -> "when" [] c = "Then" -> "then"
      [] c = "And" -> "and" [] c = "But" -> "but"
      [] c = "BDD" -> "bdd" [] c = "Plain" -> "plain"
      [] OTHER -> c

UpperTok(c) ==
    CASE c = "get" -> "GET" [] c = "post" -> "POST" [] c = "put" -> "PUT"
      [] OTHER -> c

toLowerCase(s) == [i \in 1..Len(s) |-> LowerTok(s[i])]
toUpperCase(s) == [i \in 1..Len(s) |-> UpperTok(s[i])]

(***************************************************************************)
(* Transport client (zephyr-client.js).                                    *)
(***************************************************************************)

\* Object.fromEntries(Object.entries(params).filter(([_, value]) => value != null))
NonNullEntries(params) == [k \in {j \in DOMAIN params : ~Nullish(params[j])} |-> params[k]]

\* ZephyrClient.request: the request config handed to the HTTP layer
request(method, url, data, params) ==
    [method |-> method,
     url    |-> url,
     data   |-> data,
     params |-> Spread(params, NonNullEntries(params))]

NoParams == [k \in {} |-> Undef]

\* the config the HTTP layer keeps of a request and attaches to its errors:
\* the method in lower case, a body serialised to a string
axiosConfig(req) ==
    Obj([url    |-> Str(req.url),
         method |-> Str(toLowerCase(<<req.method>>)),
         data   |-> IF Nullish(req.data) THEN req.data ELSE JSONstringify(req.data),
         params |-> Obj(req.params)])

\* the failures of one HTTP attempt: a non-2xx response with a body, one with an
\* empty body, and a network failure or timeout with no response at all
HttpFailure(req, status, statusText, body) ==
    Obj([message  |-> Str(<<"Request failed with status code">>),
         response |-> Obj([status |-> Num(status), statusText |-> Str(<<statusText>>),
                           data |-> body]),
         config   |-> axiosConfig(req)])

NetworkFailure(req) ==
    Obj([message |-> Str(<<"Network Error">>), config |-> axiosConfig(req)])

AxiosErrors(req) ==
    { HttpFailure(req, 404, "Not Found", Obj([message |-> Str(<<"not found">>)])),
      HttpFailure(req, 500, "Internal Server Error", Str(<<>>)),
      NetworkFailure(req) }

\* a variant of the interceptor that never attaches the response body
errorDetails_noBody(error) ==
    LET response == Get(error, "response")
        config == Get(error, "config")
        method == GetOpt(config, "method")
    IN  Obj([status      |-> GetOpt(response, "status"),
             statusText  |-> GetOpt(response, "statusText"),
             url         |-> GetOpt(config, "url"),
             method      |-> IF Nullish(method) THEN Undef ELSE Str(toUpperCase(method.s)),
             message     |-> Get(error, "message"),
             requestData |-> GetOpt(config, "data"),
             params      |-> GetOpt(config, "params")])

\* the response error interceptor: the object the failed call rejects with
errorDetails(error) ==
    LET response == Get(error, "response")
        config == Get(error, "config")
        method == GetOpt(config, "method")
        details ==
            [status      |-> GetOpt(response, "status"),
             statusText  |-> GetOpt(response, "statusText"),
             url         |-> GetOpt(config, "url"),
             method      |-> IF Nullish(method) THEN Undef ELSE Str(toUpperCase(method.s)),
             message     |-> Get(error, "message"),
             requestData |-> GetOpt(config, "data"),
             params      |-> GetOpt(config, "params")]
    IN  IF Truthy(GetOpt(response, "data"))
        THEN Obj(Spread(details, [responseData |-> Get(response, "data")]))
        ELSE Obj(details)


\* the client's resource methods
client_getProjects(params) == request("GET", <<"/projects">>, Null, params)
client_getProject(projectId) == request("GET", <<"/projects/">> \o ToStr(projectId), Null, NoParams)
client_getFolders(params) == request("GET", <<"/folders">>, Null, params)
client_getFolder(folderId) == request("GET", <<"/folders/">> \o ToStr(folderId), Null, NoParams)
client_createFolder(folderData) == request("POST", <<"/folders">>, folderData, NoParams)
client_getTestCases(params) == request("GET", <<"/testcases">>, Null, params)
client_getTestCase(testCaseKey) ==
    request("GET", <<"/testcases/">> \o ToStr(testCaseKey), Null, NoParams)
client_createTestCase(testCaseData) == request("POST", <<"/testcases">>, testCaseData, NoParams)
client_updateTestCase(testCaseKey, testCaseData) ==
    request("PUT", <<"/testcases/">> \o ToStr(testCaseKey), testCaseData, NoParams)
client_getTestSteps(testCaseKey, params) ==
    request("GET", <<"/testcases/">> \o ToStr(testCaseKey) \o <<"/teststeps">>, Null, params)
client_appendTestSteps(testCaseKey, stepsData) ==
    request("POST", <<"/testcases/">> \o ToStr(testCaseKey) \o <<"/teststeps">>, stepsData, NoParams)
client_getTestScript(testCaseKey) ==
    request("GET", <<"/testcases/">> \o ToStr(testCaseKey) \o <<"/testscript">>, Null, NoParams)
client_createTestScript(testCaseKey, scriptData) ==
    request("POST", <<"/testcases/">> \o ToStr(testCaseKey) \o <<"/testscript">>, scriptData, NoParams)
client_getStatuses == request("GET", <<"/statuses">>, Null, NoParams)
client_getPriorities == request("GET", <<"/priorities">>, Null, NoParams)

(***************************************************************************)
(* What a step of an async function ends with: it returns a value, throws  *)
(* (rejects), or awaits the reply to a request, keeping its locals.        *)
(***************************************************************************)
Return(v) == [k |-> "return", v |-> v]
Throw(e) == [k |-> "throw", v |-> e]
Await(req, loc) == [k |-> "await", reqs |-> <<req>>, all |-> FALSE, loc |-> loc]
\* await Promise.all([...]): the requests are issued together
AwaitAll(reqs, loc) == [k |-> "await", reqs |-> reqs, all |-> TRUE, loc |-> loc]

Start == [pc |-> "start"]
\* the settled promise a resumed step reads
Resolved(data) == [ok |-> TRUE, v |-> data]
Rejected(error) == [ok |-> FALSE, v |-> error]
NoReply == Resolved(Undef)

(***************************************************************************)
(* Pagination engine (ZephyrClient.getAllPaginated).                       *)
(***************************************************************************)

\* the request function the engine is run with
requestFn(page) == client_getProjects([maxResults |-> Num(page.maxResults),
                                       startAt |-> Num(page.startAt)])

\* the items one page response adds to the accumulator
PageItems(response) ==
    IF Truthy(Get(response, "values")) THEN Get(response, "values").a
    ELSE IF response.t = "array" THEN response.a
    ELSE <<>>

\* a variant of the exit test that wants more results than the total before it
\* stops on the count
paginationDone_strict(count, response, maxResults) ==
    LET total == OrJS(Get(response, "total"), Get(response, "size"))
    IN  (total.t = "number" /\ count > total.n)
        \/ LtJS(GetOpt(Get(response, "values"), "length"), Num(maxResults))

\* the engine's exit test after a page: all results are in, or the page is short
paginationDone(count, response, maxResults) ==
    LET total == OrJS(Get(response, "total"), Get(response, "size"))
    IN  GeJS(Num(count), total)
        \/ LtJS(GetOpt(Get(response, "values"), "length"), Num(maxResults))

\* a variant of the engine that answers a failed page with what it has so far
getAllPaginated_partial(maxResults, loc, resp) ==
    IF loc.pc = "start"
    THEN Await(requestFn([maxResults |-> maxResults, startAt |-> 0]),
               [pc |-> "page", allResults |-> <<>>, startAt |-> 0])
    ELSE IF ~resp.ok THEN Return(Arr(loc.allResults))
    ELSE IF Nullish(resp.v) THEN Throw(TypeErrorOf(<<"Cannot read properties of">>))
    ELSE
        LET response == resp.v
            allResults == loc.allResults \o PageItems(response)
        IN  IF paginationDone(Len(allResults), response, maxResults)
            THEN Return(Arr(allResults))
            ELSE Await(requestFn([maxResults |-> maxResults,
                                  startAt |-> loc.startAt + maxResults]),
                       [pc |-> "page", allResults |-> allResults,
                        startAt |-> loc.startAt + maxResults])

getAllPaginated(maxResults, loc, resp) ==
    IF loc.pc = "start"
    THEN Await(requestFn([maxResults |-> maxResults, startAt |-> 0]),
               [pc |-> "page", allResults |-> <<>>, startAt |-> 0])
    ELSE IF ~resp.ok THEN Throw(resp.v)
    ELSE IF Nullish(resp.v) THEN Throw(TypeErrorOf(<<"Cannot read properties of">>))
    ELSE
        LET response == resp.v
            allResults == loc.allResults \o PageItems(response)
        IN  IF paginationDone(Len(allResults), response, maxResults)
            THEN Return(Arr(allResults))
            ELSE Await(requestFn([maxResults |-> maxResults,
                                  startAt |-> loc.startAt + maxResults]),
                       [pc |-> "page", allResults |-> allResults,
                        startAt |-> loc.startAt + maxResults])

(***************************************************************************)
(* Validation patterns (config.js).                                        *)
(***************************************************************************)
Digits == {"0", "1", "2", "3", "4", "5", "6", "7", "8", "9"}
UpperLetters == {"A", "B", "J", "O", "P", "R", "T"}

\* config.testCaseKeyPattern.test(v):  /.+-T[0-9]+/  (not anchored)
testCaseKeyPattern(v) ==
    LET s == ToStr(v)
    IN  \E i \in 2..(Len(s) - 2) :
            s[i - 1] # "\n" /\ s[i] = "-" /\ s[i + 1] = "T" /\ s[i + 2] \in Digits

\* config.projectKeyPattern.test(v):  /^[A-Z][A-Z_0-9]+$/
projectKeyPattern(v) ==
    LET s == ToStr(v)
    IN  /\ Len(s) >= 2
        /\ s[1] \in UpperLetters
        /\ \A i \in 2..Len(s) : s[i] \in UpperLetters \cup Digits \cup {"_"}

\* config.folderIdPattern.test(v):  /^\d+$/
folderIdPattern(v) ==
    LET s == ToStr(v)
    IN  Len(s) >= 1 /\ \A i \in 1..Len(s) : s[i] \in Digits

(***************************************************************************)
(* Result envelopes and the error formatter (utils/error-handler.js).      *)
(***************************************************************************)

\* `Error ${operation}: ${error.message}\nError Detail:\n${JSON.stringify(error)}`
formatError(error, operation) ==
    [t |-> "string",
     fmt |-> [operation |-> operation,
              message   |-> ToStr(Get(error, "message")),
              detail    |-> JSONstringify(error)]]

\* { content: [{ type: 'text', text }] }
Envelope(text) == [content |-> <<[type |-> "text", text |-> text]>>]
\* { content: [{ type: 'text', text }], isError: true }
ErrorEnvelope(text) == [content |-> <<[type |-> "text", text |-> text]>>, isError |-> TRUE]

\* a catch block whose message is fixed
catchStatic(error, operation) == Return(ErrorEnvelope(formatError(error, operation)))

\* a catch block whose message reads args[field]: that read throws when args is
\* undefined or null
catchWithArgs(args, error, operation, field) ==
    IF Nullish(args)
    THEN Throw(TypeErrorOf(<<"Cannot read properties of undefined">>))
    ELSE Return(ErrorEnvelope(formatError(error, operation \o ToStr(Get(args, field)))))

\* what `const { a, b } = args` or `args.a` throws when args is undefined or null
ArgsTypeError == TypeErrorOf(<<"Cannot read properties of undefined">>)
\* what `response.values` throws when the reply has no body value
ResponseTypeError == TypeErrorOf(<<"Cannot read properties of null">>)

KeyRequired == ErrorOf(<<"testCaseKey is required">>)
KeyInvalid == ErrorOf(<<"Invalid testCaseKey format. Must match pattern: [A-Z]+-T[0-9]+">>)

(***************************************************************************)
(* Test steps tools (tools/test-steps-tools.js).                           *)
(***************************************************************************)
getTestSteps(args, loc, resp) ==
    LET catch(error) == catchWithArgs(args, error, <<"fetching test steps for ">>, "testCaseKey")
    IN
    IF loc.pc = "start" THEN
        IF Nullish(args) THEN catch(ArgsTypeError)
        ELSE
        LET testCaseKey == Get(args, "testCaseKey")
            params == [maxResults |-> OrJS(Get(args, "maxResults"), Num(defaultMaxResults)),
                       startAt    |-> OrJS(Get(args, "startAt"), Num(0))]
        IN  IF ~Truthy(testCaseKey) THEN catch(KeyRequired)
            ELSE IF ~testCaseKeyPattern(testCaseKey) THEN catch(KeyInvalid)
            ELSE Await(client_getTestSteps(testCaseKey, params),
                       [pc |-> "fetched", params |-> params])
    ELSE IF ~resp.ok THEN catch(resp.v)
    ELSE IF Nullish(resp.v) THEN catch(ResponseTypeError)
    ELSE
        LET response == resp.v
        IN  Return(Envelope(JSONstringify(Obj(
                [testCaseKey |-> Get(args, "testCaseKey"),
                 testSteps   |-> OrJS(Get(response, "values"), response),
                 total       |-> OrJS(Get(response, "total"), Get(response, "length")),
                 startAt     |-> OrJS(Get(response, "startAt"), Num(0)),
                 maxResults  |-> OrJS(Get(response, "maxResults"), loc.params.maxResults),
                 note        |-> Str(<<"Test steps are returned in paged format (100 items per page max)">>)]))))

\* one step of the steps array, formatted for the TestStepsInput schema
formattedStep(step) ==
    Obj([inline |-> Obj(Spread(Spread(Spread(
            [description |-> Get(step, "description")],
            IF Get(step, "expectedResult").t # "undefined"
            THEN [expectedResult |-> Get(step, "expectedResult")] ELSE [k \in {} |-> Undef]),
            IF Get(step, "data").t # "undefined"
            THEN [testData |-> Get(step, "data")] ELSE [k \in {} |-> Undef]),
            IF Get(step, "attachments").t # "undefined"
            THEN [attachments |-> Get(step, "attachments")] ELSE [k \in {} |-> Undef]))])

\* the first error steps.map(...) throws, if any: the lowest failing index
BadSteps(steps) == {i \in 1..Len(steps) : Nullish(steps[i]) \/ ~Truthy(Get(steps[i], "description"))}
FirstBadStep(steps) == CHOOSE i \in BadSteps(steps) : \A j \in BadSteps(steps) : i <= j

\* a variant of the ceiling test that already refuses the ceiling itself
tooManySteps_inclusive(steps) == Len(steps) >= MaxStepsPerRequest

\* steps.length > 100
tooManySteps(steps) == Len(steps) > MaxStepsPerRequest

\* the argument checks of appendTestSteps, in order: the error thrown, or none
appendTestStepsCheck(args) ==
    LET testCaseKey == Get(args, "testCaseKey")
        steps == Get(args, "steps")
    IN  IF ~Truthy(testCaseKey) THEN <<KeyRequired>>
        ELSE IF ~testCaseKeyPattern(testCaseKey) THEN <<KeyInvalid>>
        ELSE IF ~Truthy(steps) \/ steps.t # "array"
            THEN <<ErrorOf(<<"steps must be provided as an array">>)>>
        ELSE IF Len(steps.a) = 0 THEN <<ErrorOf(<<"At least one step must be provided">>)>>
        ELSE IF tooManySteps(steps.a)
            THEN <<ErrorOf(<<"Maximum 100 steps can be added per request">>)>>
        ELSE IF BadSteps(steps.a) # {}
            THEN IF Nullish(steps.a[FirstBadStep(steps.a)])
                 THEN <<ResponseTypeError>>
                 ELSE <<ErrorOf(<<"Step ", ToString(FirstBadStep(steps.a)),
                                  " is missing required field: description">>)>>
        ELSE <<>>

appendTestStepsPayload(steps) ==
    Obj([mode  |-> Str(<<"OVERWRITE">>),
         items |-> Arr([i \in 1..Len(steps) |-> formattedStep(steps[i])])])

\* the success envelope of appendTestSteps
appendTestStepsSuccess(args, result) ==
    LET testCaseKey == Get(args, "testCaseKey")
        n == Len(Get(args, "steps").a)
    IN  Envelope(JSONstringify(Obj(
            [message     |-> Str(<<"Successfully added ">> \o NumToStr(n)
                                 \o <<" test steps to ">> \o ToStr(testCaseKey)),
             testCaseKey |-> testCaseKey,
             stepsAdded  |-> Num(n),
             result      |-> result,
             warning     |-> Str(<<"If this test case had a test script, it has been implicitly removed">>)])))

\* a variant of appendTestSteps that checks the step ceiling only once the
\* request is answered
appendTestSteps_lateCeiling(args, loc, resp) ==
    LET catch(error) == catchWithArgs(args, error, <<"appending test steps to ">>, "testCaseKey")
        ceiling == <<ErrorOf(<<"Maximum 100 steps can be added per request">>)>>
    IN
    IF loc.pc = "start" THEN
        IF Nullish(args) THEN catch(ArgsTypeError)
        ELSE IF appendTestStepsCheck(args) \notin {<<>>, ceiling}
            THEN catch(appendTestStepsCheck(args)[1])
        ELSE Await(client_appendTestSteps(Get(args, "testCaseKey"),
                                          appendTestStepsPayload(Get(args, "steps").a)),
                   [pc |-> "posted"])
    ELSE IF ~resp.ok THEN catch(resp.v)
    ELSE IF appendTestStepsCheck(args) = ceiling THEN catch(ceiling[1])
    ELSE Return(appendTestStepsSuccess(args, resp.v))

appendTestSteps(args, loc, resp) ==
    LET catch(error) == catchWithArgs(args, error, <<"appending test steps to ">>, "testCaseKey")
    IN
    IF loc.pc = "start" THEN
        IF Nullish(args) THEN catch(ArgsTypeError)
        ELSE IF appendTestStepsCheck(args) # <<>> THEN catch(appendTestStepsCheck(args)[1])
        ELSE Await(client_appendTestSteps(Get(args, "testCaseKey"),
                                          appendTestStepsPayload(Get(args, "steps").a)),
                   [pc |-> "posted"])
    ELSE IF ~resp.ok THEN catch(resp.v)
    ELSE Return(appendTestStepsSuccess(args, resp.v))

\* the exit test of the loop in getAllTestSteps
allStepsDone(count, response, maxResults) ==
    LET total == OrJS(OrJS(Get(response, "total"), Get(response, "size")), Num(0))
    IN  GeJS(Num(count), total)
        \/ LtJS(GetOpt(Get(response, "values"), "length"), Num(maxResults))

\* a variant of the offset step that assigns the page size instead of adding it
nextStartAt_assign(startAt, maxResults) == maxResults

\* startAt += maxResults
nextStartAt(startAt, maxResults) == startAt + maxResults

getAllTestSteps(args, loc, resp) ==
    LET catch(error) == catchWithArgs(args, error, <<"fetching all test steps for ">>, "testCaseKey")
        maxResults == AllStepsPageSize
        page(startAt) == [maxResults |-> Num(maxResults), startAt |-> Num(startAt)]
    IN
    IF loc.pc = "start" THEN
        IF Nullish(args) THEN catch(ArgsTypeError)
        ELSE
        LET testCaseKey == Get(args, "testCaseKey")
        IN  IF ~Truthy(testCaseKey) THEN catch(KeyRequired)
            ELSE IF ~testCaseKeyPattern(testCaseKey) THEN catch(KeyInvalid)
            ELSE Await(client_getTestSteps(testCaseKey, page(0)),
                       [pc |-> "page", allSteps |-> <<>>, startAt |-> 0])
    ELSE IF ~resp.ok THEN catch(resp.v)
    ELSE IF Nullish(resp.v) THEN catch(ResponseTypeError)
    ELSE
        LET response == resp.v
            allSteps == loc.allSteps \o PageItems(response)
        IN  IF allStepsDone(Len(allSteps), response, maxResults)
            THEN Return(Envelope(JSONstringify(Obj(
                    [testCaseKey |-> Get(args, "testCaseKey"),
                     testSteps   |-> Arr(allSteps),
                     totalSteps  |-> Num(Len(allSteps)),
                     note        |-> Str(<<"All test steps retrieved (pagination handled automatically)">>)]))))
            ELSE Await(client_getTestSteps(Get(args, "testCaseKey"),
                                           page(nextStartAt(loc.startAt, maxResults))),
                       [pc |-> "page", allSteps |-> allSteps,
                        startAt |-> nextStartAt(loc.startAt, maxResults)])

(***************************************************************************)
(* The remote service. It is not part of the program: an invocation finds  *)
(* it in some state, and every request gets one reply, a payload or a      *)
(* failure.                                                                *)
(***************************************************************************)

\* how list endpoints shape a page: an envelope with values and total, an
\* envelope with values only, or a bare sequence
PageModes == {"total", "nototal", "bare"}

\* item i of a remote result set, in server order
Item(i) == Num(i)

\* the page of a result set of n items that answers params
RemotePage(n, mode, params) ==
    LET maxResults == IF "maxResults" \in DOMAIN params THEN params.maxResults.n ELSE n
        startAt == IF "startAt" \in DOMAIN params THEN params.startAt.n ELSE 0
        count == Max(0, Min(maxResults, n - startAt))
        values == Arr([i \in 1..count |-> Item(startAt + i)])
    IN  CASE mode = "total" ->
                Obj([values |-> values, total |-> Num(n),
                     startAt |-> Num(startAt), maxResults |-> Num(maxResults)])
          [] mode = "nototal" ->
                Obj([values |-> values,
                     startAt |-> Num(startAt), maxResults |-> Num(maxResults)])
          [] OTHER -> values

\* the last token of a url names the resource
Resource(req) ==
    LET first == req.url[1]
        last == req.url[Len(req.url)]
    IN  IF Len(req.url) = 1 THEN first
        ELSE IF last \in {"/teststeps", "/testscript"} THEN last
        ELSE first

\* what the remote may answer to a successful request
RemoteData(req, r) ==
    LET res == Resource(req)
    IN  IF req.method = "GET" /\ res \in {"/projects", "/folders", "/testcases",
                                           "/teststeps", "/statuses", "/priorities"}
        THEN {RemotePage(r.n, r.mode, req.params)}
        ELSE IF req.method = "GET" /\ res = "/testcases/" THEN {r.testCase}
        ELSE IF req.method = "GET" /\ res = "/testscript"
            THEN {Obj([id |-> Num(1), type |-> Str(<<"bdd">>), text |-> Str(<<"Given", " ", "x">>)])}
        ELSE IF req.method = "GET" THEN {Obj([id |-> Num(1)])}
        ELSE {Obj([id |-> Num(1)]), Str(<<>>)}

\* a variant of the transport that attempts a failed request again, as often as
\* the configuration's maxRetries allows
retryAllowed_config(failures) == failures <= maxRetries

\* whether request makes another HTTP attempt after the given number of failed
\* ones: it awaits the one attempt and lets its rejection through
retryAllowed(failures) == FALSE

\* how one HTTP attempt may end: a 2xx response with its payload, or a failure
Outcomes(req, r) ==
    {[ok |-> TRUE, v |-> d] : d \in RemoteData(req, r)}
    \cup {[ok |-> FALSE, v |-> e] : e \in AxiosErrors(req)}

\* the promise client.request settles with: response.data, or what the response
\* error interceptor rejects with
Settled(outcome) ==
    IF outcome.ok THEN Resolved(outcome.v) ELSE Rejected(errorDetails(outcome.v))


\* the body of a single-page list envelope: { <field>: response.values || response,
\* total: response.total || response.length, startAt: ..., maxResults: ... }
listBody(field, response, params) ==
    Spread([k \in {field} |-> OrJS(Get(response, "values"), response)],
           [total      |-> OrJS(Get(response, "total"), Get(response, "length")),
            startAt    |-> OrJS(Get(response, "startAt"), Num(0)),
            maxResults |-> OrJS(Get(response, "maxResults"), params.maxResults)])

(***************************************************************************)
(* Project tools (tools/project-tools.js).                                 *)
(***************************************************************************)
listProjects(args, loc, resp) ==
    LET catch(error) == catchStatic(error, <<"fetching projects">>)
    IN
    IF loc.pc = "start" THEN
        IF Nullish(args) THEN catch(ArgsTypeError)
        ELSE
        LET params == [maxResults |-> OrJS(Get(args, "maxResults"), Num(defaultMaxResults)),
                       startAt    |-> OrJS(Get(args, "startAt"), Num(0))]
        IN  Await(client_getProjects(params), [pc |-> "fetched", params |-> params])
    ELSE IF ~resp.ok THEN catch(resp.v)
    ELSE IF Nullish(resp.v) THEN catch(ResponseTypeError)
    ELSE Return(Envelope(JSONstringify(Obj(listBody("projects", resp.v, loc.params)))))

getProject(args, loc, resp) ==
    LET catch(error) == catchWithArgs(args, error, <<"fetching project ">>, "projectId")
    IN
    IF loc.pc = "start" THEN
        IF Nullish(args) THEN catch(ArgsTypeError)
        ELSE IF ~Truthy(Get(args, "projectId")) THEN catch(ErrorOf(<<"projectId is required">>))
        ELSE Await(client_getProject(Get(args, "projectId")), [pc |-> "fetched"])
    ELSE IF ~resp.ok THEN catch(resp.v)
    ELSE Return(Envelope(JSONstringify(resp.v)))

(***************************************************************************)
(* Folder tools (tools/folder-tools.js).                                   *)
(***************************************************************************)
listFolders(args, loc, resp) ==
    LET catch(error) == catchStatic(error, <<"fetching folders">>)
    IN
    IF loc.pc = "start" THEN
        IF Nullish(args) THEN catch(ArgsTypeError)
        ELSE
        LET params == [projectKey |-> Get(args, "projectKey"),
                       folderId   |-> Get(args, "folderId"),
                       maxResults |-> OrJS(Get(args, "maxResults"), Num(defaultMaxResults)),
                       startAt    |-> OrJS(Get(args, "startAt"), Num(0))]
        IN  Await(client_getFolders(params), [pc |-> "fetched", params |-> params])
    ELSE IF ~resp.ok THEN catch(resp.v)
    ELSE IF Nullish(resp.v) THEN catch(ResponseTypeError)
    ELSE Return(Envelope(JSONstringify(Obj(listBody("folders", resp.v, loc.params)))))

getFolder(args, loc, resp) ==
    LET catch(error) == catchWithArgs(args, error, <<"fetching folder ">>, "folderId")
    IN
    IF loc.pc = "start" THEN
        IF Nullish(args) THEN catch(ArgsTypeError)
        ELSE IF ~Truthy(Get(args, "folderId")) THEN catch(ErrorOf(<<"folderId is required">>))
        ELSE IF ~folderIdPattern(Get(args, "folderId"))
            THEN catch(ErrorOf(<<"Invalid folderId format. Must be a numeric ID.">>))
        ELSE Await(client_getFolder(Get(args, "folderId")), [pc |-> "fetched"])
    ELSE IF ~resp.ok THEN catch(resp.v)
    ELSE Return(Envelope(JSONstringify(resp.v)))

validFolderTypes == {<<"TEST_CASE">>, <<"TEST_PLAN">>, <<"TEST_CYCLE">>}

createFolder(args, loc, resp) ==
    LET catch(error) == catchStatic(error, <<"creating folder">>)
    IN
    IF loc.pc = "start" THEN
        IF Nullish(args) THEN catch(ArgsTypeError)
        ELSE
        LET name == Get(args, "name")
            projectKey == Get(args, "projectKey")
            parentFolderId == Get(args, "parentFolderId")
            selectedFolderType == OrJS(Get(args, "folderType"), Str(<<"TEST_CASE">>))
            folderData == [name |-> name, projectKey |-> projectKey,
                           folderType |-> selectedFolderType]
        IN  IF ~Truthy(name) THEN catch(ErrorOf(<<"folder name is required">>))
            ELSE IF ~Truthy(projectKey) THEN catch(ErrorOf(<<"projectKey is required">>))
            ELSE IF ~projectKeyPattern(projectKey)
                THEN catch(ErrorOf(<<"Invalid projectKey format. Must match pattern: [A-Z][A-Z_0-9]+">>))
            ELSE IF ~(IsPlainStr(selectedFolderType) /\ selectedFolderType.s \in validFolderTypes)
                THEN catch(ErrorOf(<<"folderType must be one of: TEST_CASE, TEST_PLAN, TEST_CYCLE">>))
            ELSE IF Truthy(parentFolderId) /\ ~folderIdPattern(parentFolderId)
                THEN catch(ErrorOf(<<"Invalid parentFolderId format. Must be a numeric ID.">>))
            ELSE Await(client_createFolder(Obj(
                        IF Truthy(parentFolderId)
                        THEN Spread(folderData, [parentId |-> Num(ParseInt(ToStr(parentFolderId)))])
                        ELSE folderData)),
                       [pc |-> "posted"])
    ELSE IF ~resp.ok THEN catch(resp.v)
    ELSE Return(Envelope(JSONstringify(Obj(
            [message |-> Str(<<"Folder created successfully">>), folder |-> resp.v]))))

(***************************************************************************)
(* Test case tools (tools/test-case-tools.js).                             *)
(***************************************************************************)
ProjectKeyInvalid ==
    ErrorOf(<<"Invalid projectKey format. Must match pattern: [A-Z][A-Z_0-9]+">>)

\* Number.isInteger(v)
IsInteger(v) == v.t = "number"

listTestCases(args, loc, resp) ==
    LET catch(error) == catchStatic(error, <<"fetching test cases">>)
    IN
    IF loc.pc = "start" THEN
        IF Nullish(args) THEN catch(ArgsTypeError)
        ELSE
        LET params == [projectKey |-> Get(args, "projectKey"),
                       folderId   |-> Get(args, "folderId"),
                       maxResults |-> OrJS(Get(args, "maxResults"), Num(defaultMaxResults)),
                       startAt    |-> OrJS(Get(args, "startAt"), Num(0))]
        IN  IF Truthy(params.projectKey) /\ ~projectKeyPattern(params.projectKey)
            THEN catch(ProjectKeyInvalid)
            ELSE IF Truthy(params.folderId)
                    /\ (~IsInteger(params.folderId) \/ LtJS(params.folderId, Num(1)))
                THEN catch(ErrorOf(<<"Invalid folderId format. Must be a positive integer.">>))
            ELSE Await(client_getTestCases(params), [pc |-> "fetched", params |-> params])
    ELSE IF ~resp.ok THEN catch(resp.v)
    ELSE IF Nullish(resp.v) THEN catch(ResponseTypeError)
    ELSE Return(Envelope(JSONstringify(Obj(listBody("testCases", resp.v, loc.params)))))

getTestCase(args, loc, resp) ==
    LET catch(error) == catchWithArgs(args, error, <<"fetching test case ">>, "testCaseKey")
    IN
    IF loc.pc = "start" THEN
        IF Nullish(args) THEN catch(ArgsTypeError)
        ELSE IF ~Truthy(Get(args, "testCaseKey")) THEN catch(KeyRequired)
        ELSE IF ~testCaseKeyPattern(Get(args, "testCaseKey")) THEN catch(KeyInvalid)
        ELSE Await(client_getTestCase(Get(args, "testCaseKey")), [pc |-> "fetched"])
    ELSE IF ~resp.ok THEN catch(resp.v)
    ELSE Return(Envelope(JSONstringify(resp.v)))

\* { f: v } when v is truthy, else {}
IfTruthy(f, v) == IF Truthy(v) THEN [k \in {f} |-> v] ELSE [k \in {} |-> Undef]

\* Array.isArray(labels) ? labels : [labels]
labelsArray(labels) == IF labels.t = "array" THEN labels ELSE Arr(<<labels>>)

\* minutes to milliseconds
toMilliseconds(estimatedTime) == Num(estimatedTime.n * MsPerMinute)

\* the record createTestCase submits (the folderId entry apart)
createTestCaseData(args) ==
    LET labels == Get(args, "labels")
        estimatedTime == Get(args, "estimatedTime")
        base == [name |-> Get(args, "name"), projectKey |-> Get(args, "projectKey")]
    IN  Spread(Spread(Spread(Spread(Spread(Spread(base,
            IfTruthy("description", Get(args, "description"))),
            IfTruthy("component", Get(args, "component"))),
            IF Truthy(labels) THEN [labels |-> labelsArray(labels)] ELSE [k \in {} |-> Undef]),
            IfTruthy("objective", Get(args, "objective"))),
            IfTruthy("precondition", Get(args, "precondition"))),
            IF Truthy(estimatedTime) THEN [estimatedTime |-> toMilliseconds(estimatedTime)]
            ELSE [k \in {} |-> Undef])

createTestCase(args, loc, resp) ==
    LET catch(error) == catchStatic(error, <<"creating test case">>)
    IN
    IF loc.pc = "start" THEN
        IF Nullish(args) THEN catch(ArgsTypeError)
        ELSE
        LET name == Get(args, "name")
            projectKey == Get(args, "projectKey")
            folderId == Get(args, "folderId")
        IN  IF ~Truthy(name) THEN catch(ErrorOf(<<"name is required">>))
            ELSE IF ~Truthy(projectKey) THEN catch(ErrorOf(<<"projectKey is required">>))
            ELSE IF ~projectKeyPattern(projectKey) THEN catch(ProjectKeyInvalid)
            ELSE IF Truthy(folderId) /\ folderId.t = "string" /\ ~folderIdPattern(folderId)
                THEN catch(ErrorOf(<<"Invalid folderId format. Must be a numeric ID.">>))
            ELSE Await(client_createTestCase(Obj(Spread(createTestCaseData(args),
                        IF ~Truthy(folderId) THEN [k \in {} |-> Undef]
                        ELSE IF folderId.t = "string"
                            THEN [folderId |-> Num(ParseInt(ToStr(folderId)))]
                        ELSE [folderId |-> folderId]))),
                       [pc |-> "posted"])
    ELSE IF ~resp.ok THEN catch(resp.v)
    ELSE Return(Envelope(JSONstringify(Obj(
            [message |-> Str(<<"Test case created successfully">>), testCase |-> resp.v]))))

\* supplied !== undefined
Supplied(args, field) == Get(args, field).t # "undefined"

\* a variant of the overlay that takes the caller's value alone
Overlay_suppliedOnly(args, current, field) == Get(args, field)

\* supplied !== undefined ? supplied : current
Overlay(args, current, field) ==
    IF Supplied(args, field) THEN Get(args, field) ELSE Get(current, field)

\* whether building the merged record reads a property of undefined or null
mergeThrows(args, current) ==
    \/ Nullish(current)
    \/ Nullish(Get(current, "project"))
    \/ Nullish(Get(current, "status"))
    \/ Nullish(Get(current, "priority"))
    \/ (~Supplied(args, "folderId") /\ Nullish(Get(current, "folder")))

\* the merged record updateTestCase submits
mergedTestCaseData(args, current) ==
    Obj([id           |-> Get(current, "id"),
         key          |-> Get(args, "testCaseKey"),
         name         |-> Overlay(args, current, "name"),
         project      |-> Obj([id |-> Get(Get(current, "project"), "id")]),
         status       |-> Obj([id |-> Get(Get(current, "status"), "id")]),
         priority     |-> Obj([id |-> Get(Get(current, "priority"), "id")]),
         folder       |-> Obj([id |-> IF Supplied(args, "folderId") THEN Get(args, "folderId")
                                      ELSE Get(Get(current, "folder"), "id")]),
         objective    |-> Overlay(args, current, "objective"),
         precondition |-> Overlay(args, current, "precondition"),
         estimatedTime |-> IF Supplied(args, "estimatedTime")
                           THEN toMilliseconds(Get(args, "estimatedTime"))
                           ELSE Get(current, "estimatedTime"),
         labels       |-> IF Supplied(args, "labels") THEN labelsArray(Get(args, "labels"))
                          ELSE OrJS(Get(current, "labels"), Arr(<<>>)),
         description  |-> Overlay(args, current, "description"),
         component    |-> Overlay(args, current, "component"),
         owner        |-> Get(current, "owner"),
         customFields |-> OrJS(Get(current, "customFields"), EmptyObj)])

\* a variant of the update that submits the caller's fields without fetching the
\* current record first
updateTestCase_blind(args, loc, resp) ==
    LET catch(error) == catchWithArgs(args, error, <<"updating test case ">>, "testCaseKey")
    IN
    IF loc.pc = "start" THEN
        IF Nullish(args) THEN catch(ArgsTypeError)
        ELSE IF ~Truthy(Get(args, "testCaseKey")) THEN catch(KeyRequired)
        ELSE IF ~testCaseKeyPattern(Get(args, "testCaseKey")) THEN catch(KeyInvalid)
        ELSE Await(client_updateTestCase(Get(args, "testCaseKey"),
                        Obj([key |-> Get(args, "testCaseKey"), name |-> Get(args, "name")])),
                   [pc |-> "put"])
    ELSE IF ~resp.ok THEN catch(resp.v)
    ELSE Return(Envelope(JSONstringify(Obj(
            [message |-> Str(<<"Test case updated successfully">>), testCase |-> resp.v]))))

updateTestCase(args, loc, resp) ==
    LET catch(error) == catchWithArgs(args, error, <<"updating test case ">>, "testCaseKey")
    IN
    IF loc.pc = "start" THEN
        IF Nullish(args) THEN catch(ArgsTypeError)
        ELSE IF ~Truthy(Get(args, "testCaseKey")) THEN catch(KeyRequired)
        ELSE IF ~testCaseKeyPattern(Get(args, "testCaseKey")) THEN catch(KeyInvalid)
        ELSE Await(client_getTestCase(Get(args, "testCaseKey")), [pc |-> "fetched"])
    ELSE IF ~resp.ok THEN catch(resp.v)
    ELSE IF loc.pc = "fetched" THEN
        IF mergeThrows(args, resp.v) THEN catch(ResponseTypeError)
        ELSE Await(client_updateTestCase(Get(args, "testCaseKey"),
                                         mergedTestCaseData(args, resp.v)),
                   [pc |-> "put", current |-> resp.v])
    ELSE Return(Envelope(JSONstringify(Obj(
            [message |-> Str(<<"Test case updated successfully">>), testCase |-> resp.v]))))

(***************************************************************************)
(* Test script tools (tools/test-script-tools.js).                         *)
(***************************************************************************)
Whitespace == {" ", "    ", "\n", "\t"}

RECURSIVE trimStart(_)
trimStart(s) == IF s # <<>> /\ Head(s) \in Whitespace THEN trimStart(Tail(s)) ELSE s
RECURSIVE trimEnd(_)
trimEnd(s) ==
    IF s # <<>> /\ s[Len(s)] \in Whitespace THEN trimEnd(SubSeq(s, 1, Len(s) - 1)) ELSE s
\* text.trim()
trim(s) == trimEnd(trimStart(s))

getTestScript(args, loc, resp) ==
    LET catch(error) == catchWithArgs(args, error, <<"fetching test script for ">>, "testCaseKey")
    IN
    IF loc.pc = "start" THEN
        IF Nullish(args) THEN catch(ArgsTypeError)
        ELSE IF ~Truthy(Get(args, "testCaseKey")) THEN catch(KeyRequired)
        ELSE IF ~testCaseKeyPattern(Get(args, "testCaseKey")) THEN catch(KeyInvalid)
        ELSE Await(client_getTestScript(Get(args, "testCaseKey")), [pc |-> "fetched"])
    ELSE IF ~resp.ok THEN catch(resp.v)
    ELSE Return(Envelope(JSONstringify(Obj(
            [testCaseKey |-> Get(args, "testCaseKey"),
             testScript  |-> resp.v,
             note        |-> Str(<<"Test script is returned in Gherkin format (BDD style)">>)]))))

scriptTypes == {<<"bdd">>, <<"plain">>}

\* scriptData.type: the lower-cased type, 'bdd' when none is given
scriptType(type) == IF Truthy(type) THEN Str(toLowerCase(type.s)) ELSE Str(<<"bdd">>)

StepsRemovedWarning ==
    Str(<<"If this test case had existing test steps, they have been implicitly removed as test scripts and steps are mutually exclusive">>)

createTestScript(args, loc, resp) ==
    LET catch(error) == catchWithArgs(args, error, <<"creating test script for ">>, "testCaseKey")
    IN
    IF loc.pc = "start" THEN
        IF Nullish(args) THEN catch(ArgsTypeError)
        ELSE
        LET testCaseKey == Get(args, "testCaseKey")
            text == Get(args, "text")
            type == Get(args, "type")
        IN  IF ~Truthy(testCaseKey) THEN catch(KeyRequired)
            ELSE IF ~testCaseKeyPattern(testCaseKey) THEN catch(KeyInvalid)
            ELSE IF ~Truthy(text) THEN catch(ErrorOf(<<"text (script content) is required">>))
            ELSE IF ~IsPlainStr(text) \/ trim(text.s) = <<>>
                THEN catch(ErrorOf(<<"text must be a non-empty string">>))
            ELSE IF Truthy(type) /\ (~IsPlainStr(type) \/ toLowerCase(type.s) \notin scriptTypes)
                THEN catch(ErrorOf(<<"type must be either \"bdd\" (Gherkin) or \"plain\"">>))
            ELSE Await(client_createTestScript(testCaseKey,
                            Obj([text |-> Str(trim(text.s)), type |-> scriptType(type)])),
                       [pc |-> "posted", type |-> scriptType(type)])
    ELSE IF ~resp.ok THEN catch(resp.v)
    ELSE Return(Envelope(JSONstringify(Obj(
            [message     |-> Str(<<"Test script created/updated successfully for ">>
                                 \o ToStr(Get(args, "testCaseKey"))),
             testCaseKey |-> Get(args, "testCaseKey"),
             scriptType  |-> loc.type,
             result      |-> resp.v,
             warning     |-> StepsRemovedWarning,
             note        |-> IF loc.type = Str(<<"bdd">>)
                             THEN Str(<<"Script should be in Gherkin format (Given/When/Then/And/But)">>)
                             ELSE Str(<<"Plain text script format">>)]))))

validStepKeywords == {"Given", "When", "Then", "And", "But"}

\* stepText.toLowerCase().startsWith(keyword.toLowerCase()) for some keyword
hasKeyword(stepText) ==
    stepText # <<>> /\ LowerTok(stepText[1]) \in {LowerTok(w) : w \in validStepKeywords}

\* the lines the steps add to the script
RECURSIVE stepLines(_)
stepLines(steps) ==
    IF steps = <<>> THEN <<>>
    ELSE <<"    ">> \o trim(Head(steps).s) \o <<"\n">> \o stepLines(Tail(steps))

BadGherkinSteps(steps) ==
    {i \in 1..Len(steps) :
        ~IsPlainStr(steps[i]) \/ trim(steps[i].s) = <<>> \/ ~hasKeyword(trim(steps[i].s))}
FirstBadGherkinStep(steps) ==
    CHOOSE i \in BadGherkinSteps(steps) : \A j \in BadGherkinSteps(steps) : i <= j

\* the argument checks of createBddTestScript, in order: the error thrown, or none
createBddTestScriptCheck(args) ==
    LET testCaseKey == Get(args, "testCaseKey")
        steps == Get(args, "steps")
        i == FirstBadGherkinStep(steps.a)
    IN  IF ~Truthy(testCaseKey) THEN <<KeyRequired>>
        ELSE IF ~testCaseKeyPattern(testCaseKey) THEN <<KeyInvalid>>
        ELSE IF Truthy(steps) /\ steps.t = "array" THEN
            IF Len(steps.a) = 0 THEN <<ErrorOf(<<"At least one step must be provided">>)>>
            ELSE IF BadGherkinSteps(steps.a) = {} THEN <<>>
            ELSE IF ~IsPlainStr(steps.a[i]) \/ trim(steps.a[i].s) = <<>>
                THEN <<ErrorOf(<<"Step ", ToString(i), " must be a non-empty string">>)>>
            ELSE <<ErrorOf(<<"Step ", ToString(i),
                             " must start with a Gherkin keyword: Given, When, Then, And, or But">>)>>
        ELSE IF ~Truthy(Get(args, "feature")) /\ ~Truthy(Get(args, "scenario"))
            THEN <<ErrorOf(<<"Either steps array or feature/scenario text must be provided">>)>>
        ELSE <<>>

gherkinScript(args) ==
    LET feature == Get(args, "feature")
        scenario == Get(args, "scenario")
        steps == Get(args, "steps")
    IN  (IF Truthy(feature) THEN <<"Feature: ">> \o ToStr(feature) \o <<"\n", "\n">> ELSE <<>>)
        \o (IF Truthy(scenario) THEN <<"Scenario: ">> \o ToStr(scenario) \o <<"\n">> ELSE <<>>)
        \o (IF Truthy(steps) /\ steps.t = "array" THEN stepLines(steps.a) ELSE <<>>)

bddHelper(args) ==
    LET steps == Get(args, "steps")
    IN  Obj([feature         |-> Get(args, "feature"),
             scenario        |-> Get(args, "scenario"),
             stepsCount      |-> IF Truthy(steps) THEN Get(steps, "length") ELSE Num(0),
             generatedScript |-> Str(gherkinScript(args))])

\* a variant of the result that reports the helper without the fields of the
\* envelope createTestScript returned
bddResult_helperOnly(args, result) ==
    LET originalContent == result.content[1].text
    IN  IF JSONparses(originalContent)
        THEN Return(Envelope(JSONstringify(Obj(
                [message   |-> Get(JSONparse(originalContent), "message"),
                 bddHelper |-> bddHelper(args)]))))
        ELSE Return(ErrorEnvelope(JSONstringify(Obj(
                [error            |-> Str(<<"Failed to parse createTestScript response">>),
                 originalResponse |-> originalContent,
                 parseError       |-> Str(<<"Unexpected token">>),
                 bddHelper        |-> bddHelper(args)]))))

\* what createBddTestScript makes of the envelope createTestScript returned
bddResult(args, result) ==
    LET originalContent == result.content[1].text
    IN  IF JSONparses(originalContent)
        THEN Return(Envelope(JSONstringify(Obj(
                Spread(JSONparse(originalContent).o, [bddHelper |-> bddHelper(args)])))))
        ELSE Return(ErrorEnvelope(JSONstringify(Obj(
                [error            |-> Str(<<"Failed to parse createTestScript response">>),
                 originalResponse |-> originalContent,
                 parseError       |-> Str(<<"Unexpected token">>),
                 bddHelper        |-> bddHelper(args)]))))

createBddTestScript(args, loc, resp) ==
    LET catch(error) == catchWithArgs(args, error, <<"creating BDD test script for ">>, "testCaseKey")
        scriptArgs == Obj([testCaseKey |-> Get(args, "testCaseKey"),
                           text        |-> Str(gherkinScript(args)),
                           type        |-> Str(<<"bdd">>)])
        inner == createTestScript(scriptArgs, IF loc.pc = "start" THEN loc ELSE loc.inner, resp)
    IN
    IF loc.pc = "start" /\ Nullish(args) THEN catch(ArgsTypeError)
    ELSE IF loc.pc = "start" /\ createBddTestScriptCheck(args) # <<>>
        THEN catch(createBddTestScriptCheck(args)[1])
    ELSE IF inner.k = "await" THEN Await(inner.reqs[1], [pc |-> "inner", inner |-> inner.loc])
    ELSE IF inner.k = "throw" THEN catch(inner.v)
    ELSE bddResult(args, inner.v)

(***************************************************************************)
(* Reference data tools (tools/reference-data-tools.js).                   *)
(***************************************************************************)
listStatuses(args, loc, resp) ==
    LET catch(error) == catchStatic(error, <<"fetching statuses">>)
    IN
    IF loc.pc = "start" THEN Await(client_getStatuses, [pc |-> "fetched"])
    ELSE IF ~resp.ok THEN catch(resp.v)
    ELSE IF Nullish(resp.v) THEN catch(ResponseTypeError)
    ELSE Return(Envelope(JSONstringify(Obj(
            [statuses |-> OrJS(Get(resp.v, "values"), resp.v),
             total    |-> OrJS(Get(resp.v, "total"), Get(resp.v, "length")),
             note     |-> Str(<<"These statuses can be used when creating or updating test cases">>)]))))

listPriorities(args, loc, resp) ==
    LET catch(error) == catchStatic(error, <<"fetching priorities">>)
    IN
    IF loc.pc = "start" THEN Await(client_getPriorities, [pc |-> "fetched"])
    ELSE IF ~resp.ok THEN catch(resp.v)
    ELSE IF Nullish(resp.v) THEN catch(ResponseTypeError)
    ELSE Return(Envelope(JSONstringify(Obj(
            [priorities |-> OrJS(Get(resp.v, "values"), resp.v),
             total      |-> OrJS(Get(resp.v, "total"), Get(resp.v, "length")),
             note       |-> Str(<<"These priorities can be used when creating or updating test cases">>)]))))

\* a variant that asks for the priorities once the statuses have arrived
getReferenceData_sequential(args, loc, resp) ==
    LET catch(error) == catchStatic(error, <<"fetching reference data">>)
    IN
    IF loc.pc = "start" THEN Await(client_getStatuses, [pc |-> "statuses"])
    ELSE IF ~resp.ok THEN catch(resp.v)
    ELSE IF loc.pc = "statuses"
    THEN Await(client_getPriorities, [pc |-> "priorities", statusesResponse |-> resp.v])
    ELSE
        LET statuses == OrJS(Get(loc.statusesResponse, "values"), loc.statusesResponse)
            priorities == OrJS(Get(resp.v, "values"), resp.v)
        IN  Return(Envelope(JSONstringify(Obj(
                [statuses   |-> statuses,
                 priorities |-> priorities,
                 summary    |-> Obj([totalStatuses   |-> Get(statuses, "length"),
                                     totalPriorities |-> Get(priorities, "length")]),
                 usage      |-> Str(<<"Use these values for statusName and priorityName fields when creating/updating test cases">>)]))))

getReferenceData(args, loc, resp) ==
    LET catch(error) == catchStatic(error, <<"fetching reference data">>)
    IN
    IF loc.pc = "start"
    THEN AwaitAll(<<client_getStatuses, client_getPriorities>>, [pc |-> "fetched"])
    ELSE IF ~resp.ok THEN catch(resp.v)
    ELSE
        LET statusesResponse == resp.v.a[1]
            prioritiesResponse == resp.v.a[2]
            statuses == OrJS(Get(statusesResponse, "values"), statusesResponse)
            priorities == OrJS(Get(prioritiesResponse, "values"), prioritiesResponse)
        IN  IF Nullish(statusesResponse) \/ Nullish(prioritiesResponse)
            THEN catch(ResponseTypeError)
            ELSE Return(Envelope(JSONstringify(Obj(
                    [statuses   |-> statuses,
                     priorities |-> priorities,
                     summary    |-> Obj([totalStatuses   |-> Get(statuses, "length"),
                                         totalPriorities |-> Get(priorities, "length")]),
                     usage      |-> Str(<<"Use these values for statusName and priorityName fields when creating/updating test cases">>)]))))

(***************************************************************************)
(* Protocol front-end (index.js): the registered tools and the call-tool   *)
(* request handler.                                                        *)
(***************************************************************************)
allTools ==
    <<"list_projects", "get_project",
      "list_folders", "get_folder", "create_folder",
      "list_test_cases", "get_test_case", "create_test_case", "update_test_case",
      "get_test_steps", "get_all_test_steps", "append_test_steps",
      "get_test_script", "create_test_script", "create_bdd_test_script",
      "list_statuses", "list_priorities", "get_reference_data">>

ToolNames == {allTools[i] : i \in 1..Len(allTools)}

\* a variant of the lookup that falls back to the first tool
findTool_first(name) ==
    IF name \in ToolNames THEN <<name>> ELSE <<allTools[1]>>

\* allTools.find(t => t.name === name): the tool found, or none
findTool(name) == IF name \in ToolNames THEN <<name>> ELSE <<>>

\* tool.handler(args), run from loc with the reply resp
handler(name, args, loc, resp) ==
    CASE name = "list_projects" -> listProjects(args, loc, resp)
      [] name = "get_project" -> getProject(args, loc, resp)
      [] name = "list_folders" -> listFolders(args, loc, resp)
      [] name = "get_folder" -> getFolder(args, loc, resp)
      [] name = "create_folder" -> createFolder(args, loc, resp)
      [] name = "list_test_cases" -> listTestCases(args, loc, resp)
      [] name = "get_test_case" -> getTestCase(args, loc, resp)
      [] name = "create_test_case" -> createTestCase(args, loc, resp)
      [] name = "update_test_case" -> updateTestCase(args, loc, resp)
      [] name = "get_test_steps" -> getTestSteps(args, loc, resp)
      [] name = "get_all_test_steps" -> getAllTestSteps(args, loc, resp)
      [] name = "append_test_steps" -> appendTestSteps(args, loc, resp)
      [] name = "get_test_script" -> getTestScript(args, loc, resp)
      [] name = "create_test_script" -> createTestScript(args, loc, resp)
      [] name = "create_bdd_test_script" -> createBddTestScript(args, loc, resp)
      [] name = "list_statuses" -> listStatuses(args, loc, resp)
      [] name = "list_priorities" -> listPriorities(args, loc, resp)
      [] name = "get_reference_data" -> getReferenceData(args, loc, resp)
      [] name = "getAllPaginated" -> getAllPaginated(Get(args, "maxResults").n, loc, resp)

\* a variant of the front-end that remembers having served a call and marks its
\* later results
callToolResult_marked(name, out) ==
    LET result == IF out.k = "return" THEN out.v
                  ELSE ErrorEnvelope(Str(<<"Error executing ", name, ": ">>
                                         \o ToStr(Get(out.v, "message"))))
    IN  IF previous = <<>> THEN result ELSE [result EXCEPT !.content = @ \o @]

\* the call-tool handler's own result for what the tool handler ended with
callToolResult(name, out) ==
    IF out.k = "return" THEN out.v
    ELSE ErrorEnvelope(Str(<<"Error executing ", name, ": ">> \o ToStr(Get(out.v, "message"))))

UnknownTool(name) == ErrorOf(<<"Unknown tool: ", name>>)

(***************************************************************************)
(* Inputs: the arguments a caller may send and the states the remote may   *)
(* be in.                                                                  *)
(***************************************************************************)
KeyOK == Str(<<"A", "B", "-", "T", "1">>)
KeyLower == Str(<<"a", "-", "T", "1">>)
KeyTrailing == Str(<<"A", "-", "T", "1", "x">>)
KeyNoDigits == Str(<<"A", "-", "T">>)
KeyEmpty == Str(<<>>)
TestCaseKeys == {Undef, KeyEmpty, KeyNoDigits, KeyLower, KeyTrailing, KeyOK}

OnlyKey(key) == Obj([testCaseKey |-> key])
KeyArgs == {OnlyKey(key) : key \in TestCaseKeys}

PagingArgs ==
    {[maxResults |-> m, startAt |-> a] :
        m \in {Undef, Num(0), Num(2), Num(100), Num(101)}, a \in {Undef, Num(0), Num(2)}}

\* a step of append_test_steps: with or without a description, with or without
\* the optional fields
GoodStep == Obj([description |-> Str(<<"do">>)])
FullStep == Obj([description |-> Str(<<"do">>), expectedResult |-> Str(<<"ok">>),
                 data |-> Str(<<"d">>), attachments |-> Arr(<<>>)])
BadStep == Obj([expectedResult |-> Str(<<"ok">>)])

Repeat(x, n) == [i \in 1..n |-> x]

StepArrays ==
    {Undef, Str(<<"do">>), Arr(<<>>), Arr(<<GoodStep>>), Arr(<<FullStep, GoodStep>>),
     Arr(<<GoodStep, BadStep, BadStep>>),
     Arr(Repeat(GoodStep, MaxStepsPerRequest - 1)),
     Arr(Repeat(GoodStep, MaxStepsPerRequest)),
     Arr(Repeat(GoodStep, MaxStepsPerRequest + 1))}

GherkinSteps ==
    {Undef, Arr(<<>>),
     Arr(<<Str(<<"Given", " ", "x">>), Str(<<" ", "when", " ", "y">>)>>),
     Arr(<<Str(<<"Given", " ", "x">>), Str(<<" ">>)>>),
     Arr(<<Str(<<"Click", " ", "x">>)>>),
     Arr(<<Num(1)>>)}

TestCaseFieldArgs ==
    {[name |-> n, folderId |-> f, estimatedTime |-> e, labels |-> l,
      description |-> d, component |-> IF d = Undef THEN Undef ELSE Num(4),
      objective |-> d, precondition |-> d] :
        n \in {Undef, Str(<<"new name">>)},
        f \in {Undef, Num(3), Str(<<"1", "2">>), Str(<<"1", "x">>)},
        e \in {Undef, Num(0), Num(2)},
        l \in {Undef, Str(<<"l1">>), Arr(<<Str(<<"l1">>), Str(<<"l2">>)>>)},
        d \in {Undef, Str(<<"text">>)}}

\* the names a call-tool request may carry: the registered ones and one that is not
RequestNames == ToolNames \cup {"no_such_tool"}

\* the argument objects tried with each tool; Undef is a call without arguments
ArgsOf(name) ==
    {Undef} \cup
    CASE name \in {"list_projects"} -> {Obj(a) : a \in PagingArgs}
      [] name = "get_project" ->
            {Obj([projectId |-> v]) : v \in {Undef, Str(<<>>), Str(<<"A", "B">>)}}
      [] name = "list_folders" ->
            {Obj(Spread(a, [projectKey |-> Str(<<"A", "B">>), folderId |-> Undef])) : a \in PagingArgs}
      [] name = "get_folder" ->
            {Obj([folderId |-> v]) : v \in {Undef, Str(<<"1", "2">>), Str(<<"1", "x">>)}}
      [] name = "create_folder" ->
            {Obj([name |-> n, projectKey |-> k, parentFolderId |-> f, folderType |-> t]) :
                n \in {Undef, Str(<<"folder">>)},
                k \in {Undef, Str(<<"A", "B">>), Str(<<"a", "b">>)},
                f \in {Undef, Str(<<"1", "2">>), Str(<<"1", "x">>)},
                t \in {Undef, Str(<<"TEST_PLAN">>), Str(<<"OTHER">>)}}
      [] name = "list_test_cases" ->
            {Obj([projectKey |-> k, folderId |-> f, maxResults |-> m, startAt |-> Undef]) :
                k \in {Undef, Str(<<"A", "B">>), Str(<<"a", "b">>)},
                f \in {Undef, Num(3), Num(0 - 1), Str(<<"1">>)},
                m \in {Undef, Num(2)}}
      [] name = "create_test_case" ->
            {Obj(Spread(a, [name |-> Str(<<"case">>), projectKey |-> Str(<<"A", "B">>)])) :
                a \in TestCaseFieldArgs}
            \cup {Obj([name |-> n, projectKey |-> k]) :
                    n \in {Undef, Str(<<"case">>)},
                    k \in {Undef, Str(<<"A", "B">>), Str(<<"a", "b">>)}}
      [] name = "update_test_case" ->
            {Obj(Spread(a, [testCaseKey |-> KeyOK])) :
                a \in {b \in TestCaseFieldArgs : b.folderId.t # "string"}}
            \cup KeyArgs
      [] name = "get_test_steps" ->
            {Obj(Spread(a, [testCaseKey |-> KeyOK])) : a \in PagingArgs} \cup KeyArgs
      [] name = "append_test_steps" ->
            {Obj([testCaseKey |-> KeyOK, steps |-> st]) : st \in StepArrays}
            \cup {Obj([testCaseKey |-> k, steps |-> Arr(<<GoodStep>>)]) : k \in TestCaseKeys}
      [] name = "create_test_script" ->
            {Obj([testCaseKey |-> KeyOK, text |-> x, type |-> t]) :
                x \in {Undef, Str(<<>>), Str(<<" ", "\n">>), Num(7), Str(<<" ", "Given", " ", "x">>)},
                t \in {Undef, Str(<<"BDD">>), Str(<<"plain">>), Str(<<"xml">>), Num(1)}}
            \cup {Obj([testCaseKey |-> k, text |-> Str(<<"Given", " ", "x">>)]) : k \in TestCaseKeys}
      [] name = "create_bdd_test_script" ->
            {Obj([testCaseKey |-> KeyOK, feature |-> f, scenario |-> sc, steps |-> st]) :
                f \in {Undef, Str(<<"login">>)}, sc \in {Undef, Str(<<"ok">>)},
                st \in GherkinSteps}
            \cup KeyArgs
      [] name \in {"list_statuses", "list_priorities", "get_reference_data"} -> {EmptyObj}
      [] OTHER -> KeyArgs

\* test case records the remote may hold
RecordFull ==
    Obj([id |-> Num(7), key |-> KeyOK, name |-> Str(<<"old name">>),
         project  |-> Obj([id |-> Num(10), self |-> Str(<<"/projects/10">>)]),
         status   |-> Obj([id |-> Num(20), self |-> Str(<<"/statuses/20">>)]),
         priority |-> Obj([id |-> Num(30), self |-> Str(<<"/priorities/30">>)]),
         folder   |-> Obj([id |-> Num(40), self |-> Str(<<"/folders/40">>)]),
         objective |-> Str(<<"old objective">>), precondition |-> Str(<<"old precondition">>),
         estimatedTime |-> Num(120000), labels |-> Arr(<<Str(<<"l0">>)>>),
         description |-> Str(<<"old description">>),
         component |-> Obj([id |-> Num(50), self |-> Str(<<"/components/50">>)]),
         owner |-> Obj([accountId |-> Str(<<"u1">>)]),
         customFields |-> Obj([cf |-> Str(<<"v">>)]),
         createdOn |-> Str(<<"2024-01-01">>)])

\* a test case outside any folder, and one with the optional fields unset
RecordNoFolder == Obj(Spread(RecordFull.o, [folder |-> Null]))
RecordSparse ==
    Obj([k \in DOMAIN RecordFull.o \ {"labels", "customFields", "estimatedTime",
                                      "description", "component"} |-> RecordFull.o[k]])

TestCaseRecords == {RecordFull, RecordNoFolder, RecordSparse}

\* result-set sizes around the page size of get_all_test_steps
StepCounts == {0, 1, AllStepsPageSize - 1, AllStepsPageSize, AllStepsPageSize + 1,
               2 * AllStepsPageSize + 50}

RemoteDefault == [n |-> 1, mode |-> "total", testCase |-> RecordFull, changes |-> 0]

RemotesOf(name) ==
    CASE name \in {"list_projects", "list_folders", "list_test_cases", "get_test_steps",
                   "list_statuses", "list_priorities", "get_reference_data"} ->
            {[RemoteDefault EXCEPT !.n = n, !.mode = m] : n \in {0, 3}, m \in PageModes}
      [] name = "get_all_test_steps" ->
            {[RemoteDefault EXCEPT !.n = n, !.mode = m] : n \in StepCounts, m \in PageModes}
      [] name = "getAllPaginated" ->
            {[RemoteDefault EXCEPT !.n = n, !.mode = m] : n \in 0..MaxItems, m \in PageModes}
      [] name \in {"get_test_case", "update_test_case"} ->
            {[RemoteDefault EXCEPT !.testCase = tc] : tc \in TestCaseRecords}
      [] OTHER -> {RemoteDefault}

(***************************************************************************)
(* State machine.                                                          *)
(***************************************************************************)
Idle ==
    [pc      |-> "idle",     \* idle, await (a reply is outstanding), done
     tool    |-> "",         \* the name the request asked for
     ran     |-> <<>>,       \* the handlers run for it
     args    |-> Undef,
     loc     |-> Start,      \* the handler's locals at its await
     reqs    |-> <<>>,       \* the requests of the current await
     all     |-> FALSE,      \* whether the await is a Promise.all
     waiting |-> {},         \* the requests of the await not yet answered
     got     |-> <<>>,       \* the payloads of those answered
     out     |-> [k |-> "none"],  \* what the handler ended with
     result  |-> <<>>]       \* the call-tool result, once there is one

Init ==
    /\ inv = Idle
    /\ calls = <<>>
    /\ replies = <<>>
    /\ remote = RemoteDefault
    /\ previous = <<>>
    /\ pipelined = <<>>

\* a variant in which the handlers keep their locals in one place for all
\* invocations
localsOf_shared(own, other) == IF DOMAIN other = DOMAIN own THEN other ELSE own

\* the locals a resumed handler reads: those of its own invocation, every
\* handler declaring them inside its body
localsOf(own, other) == own

\* the invocation after a step of its handler ended with out
Settle(name, found, args, out, direct) ==
    IF out.k = "await"
    THEN /\ inv' = [Idle EXCEPT !.pc = "await", !.tool = name, !.ran = <<found>>,
                                !.args = args,
                                !.loc = out.loc, !.reqs = out.reqs, !.all = out.all,
                                !.waiting = 1..Len(out.reqs),
                                !.got = [i \in 1..Len(out.reqs) |-> Undef]]
         /\ calls' = calls \o out.reqs
    ELSE /\ inv' = [Idle EXCEPT !.pc = "done", !.tool = name, !.ran = <<found>>,
                                !.args = args, !.out = out,
                                !.result = IF direct THEN <<>>
                                           ELSE <<callToolResult(name, out)>>]
         /\ calls' = calls

\* a call-tool request arrives
CallTool ==
    /\ inv.pc = "idle"
    /\ \E name \in RequestNames :
         /\ findTool(name) # <<>>
         /\ \E args \in ArgsOf(name), r \in RemotesOf(name) :
              LET found == findTool(name)[1]
              IN  /\ remote' = r
                  /\ replies' = <<>>
                  /\ Settle(name, found, args, handler(found, args, Start, NoReply), FALSE)
    /\ UNCHANGED <<previous, pipelined>>

\* a call-tool request names a tool that is not registered
CallUnknownTool ==
    /\ inv.pc = "idle"
    /\ \E name \in RequestNames :
         /\ findTool(name) = <<>>
         /\ inv' = [Idle EXCEPT !.pc = "done", !.tool = name, !.args = EmptyObj,
                                !.out = [k |-> "unknown"],
                                !.result = <<callToolResult(name, Throw(UnknownTool(name)))>>]
    /\ UNCHANGED <<calls, replies, remote, previous, pipelined>>

\* the pagination engine is run on its own
RunGetAllPaginated ==
    /\ inv.pc = "idle"
    /\ \E p \in 1..MaxPageSize, r \in RemotesOf("getAllPaginated") :
         LET args == Obj([maxResults |-> Num(p)])
         IN  /\ remote' = r
             /\ replies' = <<>>
             /\ Settle("getAllPaginated", "getAllPaginated", args,
                       handler("getAllPaginated", args, Start, NoReply), TRUE)
    /\ UNCHANGED <<previous, pipelined>>

\* the remote answers an HTTP attempt for an outstanding request, request settles
\* and the handler runs on to its next await or to its end; a Promise.all resumes on its first failure or last payload
RemoteReply ==
    /\ inv.pc = "await"
    /\ Len(calls) <= MaxFetches
    /\ \E i \in inv.waiting :
         \E outcome \in Outcomes(inv.reqs[i], remote) :
            LET rep == Settled(outcome)
                got == [inv.got EXCEPT ![i] = rep.v]
                direct == inv.tool = "getAllPaginated"
                call == Len(calls) - Len(inv.reqs) + i
                failures == Cardinality({j \in 1..Len(replies) :
                                            replies[j].call = call /\ ~replies[j].ok})
            IN  /\ replies' = Append(replies, [call |-> call, req |-> inv.reqs[i],
                                              ok |-> outcome.ok,
                                              raw |-> outcome.v, v |-> rep.v])
                /\ IF ~rep.ok /\ retryAllowed(failures + 1)
                   THEN /\ inv' = inv
                        /\ calls' = calls
                   ELSE IF rep.ok /\ inv.waiting # {i}
                   THEN /\ inv' = [inv EXCEPT !.waiting = @ \ {i}, !.got = got]
                        /\ calls' = calls
                   ELSE Settle(inv.tool, inv.ran[1], inv.args,
                            handler(inv.ran[1], inv.args,
                                    localsOf(inv.loc, IF pipelined = <<>> THEN Start
                                                      ELSE pipelined[1].loc),
                                    IF ~rep.ok THEN rep
                                    ELSE IF inv.all THEN Resolved(Arr(got))
                                    ELSE rep),
                            direct)
    /\ UNCHANGED <<remote, previous, pipelined>>

\* the result goes back to the caller
Deliver ==
    /\ inv.pc = "done"
    /\ inv' = Idle
    /\ calls' = <<>>
    /\ replies' = <<>>
    /\ remote' = RemoteDefault
    /\ previous' = <<>>
    /\ pipelined' = <<>>

Next == CallTool \/ CallUnknownTool \/ RunGetAllPaginated \/ RemoteReply \/ Deliver

Spec == Init /\ [][Next]_vars

\* Nothing in the program holds the remote still while an invocation waits: other
\* clients may delete all items of the result set, delete one, or add one.
RemoteChange ==
    /\ inv.pc = "await"
    /\ remote.changes < MaxChanges
    /\ \E n \in {0, remote.n - 1, remote.n + 1} \ {remote.n} :
         /\ n >= 0
         /\ remote' = [remote EXCEPT !.n = n, !.changes = @ + 1]
    /\ UNCHANGED <<inv, calls, replies, previous, pipelined>>

\* another writer changes a field of the test case while update_test_case is
\* waiting for the remote
ExternalObjective == Str(<<"external objective">>)

ExternalWrite ==
    /\ inv.pc = "await"
    /\ inv.tool = "update_test_case"
    /\ remote.changes < MaxChanges
    /\ remote.testCase.o.objective # ExternalObjective
    /\ remote' = [remote EXCEPT !.testCase.o.objective = ExternalObjective,
                                !.changes = @ + 1]
    /\ UNCHANGED <<inv, calls, replies, previous, pipelined>>

NextChanging == Next \/ RemoteChange \/ ExternalWrite
SpecChanging == Init /\ [][NextChanging]_vars

\* The caller repeats a call. The list and get tools are the ones a caller may
\* repeat at will; the result of one is kept to hold the next against.
ReadTools ==
    {"list_projects", "get_project", "list_folders", "get_folder", "list_test_cases",
     "get_test_case", "get_test_steps", "get_all_test_steps", "get_test_script",
     "list_statuses", "list_priorities", "get_reference_data"}

FirstCall == previous = <<>> /\ CallTool

DeliverKept ==
    /\ inv.pc = "done"
    /\ inv.tool \in ReadTools
    /\ previous' = <<[tool |-> inv.tool, args |-> inv.args, remote |-> remote,
                  outcomes |-> [i \in 1..Len(replies) |-> <<replies[i].call, replies[i].raw>>],
                  out |-> inv.out, result |-> inv.result]>>
    /\ inv' = Idle
    /\ calls' = <<>>
    /\ replies' = <<>>
    /\ remote' = RemoteDefault
    /\ UNCHANGED pipelined

\* the same tool is called again with the same arguments, the remote as it was
CallAgain ==
    /\ inv.pc = "idle"
    /\ previous # <<>>
    /\ remote' = previous[1].remote
    /\ replies' = <<>>
    /\ Settle(previous[1].tool, findTool(previous[1].tool)[1], previous[1].args,
              handler(findTool(previous[1].tool)[1], previous[1].args, Start, NoReply), FALSE)
    /\ UNCHANGED <<previous, pipelined>>

\* The front-end pipelines tool calls: a second request arrives and its handler
\* runs while the first handler waits for the remote; both talk to the same
\* remote. The first is a run of get_all_test_steps, the second another such run
\* or a single page of the same steps.
PipelinedTools == {"get_all_test_steps"}
SecondTools == {"get_all_test_steps", "get_test_steps"}

FirstOfTwo == CallTool /\ inv'.tool \in PipelinedTools

\* the second invocation after a step of its handler ended with out
SettleSecond(slot, out) ==
    IF out.k = "await"
    THEN [slot EXCEPT !.pc = "await", !.loc = out.loc, !.calls = @ \o out.reqs]
    ELSE [slot EXCEPT !.pc = "done", !.loc = Start, !.out = out,
                      !.result = <<callToolResult(slot.tool, out)>>]

SecondCall ==
    /\ inv.pc = "await"
    /\ inv.tool \in PipelinedTools
    /\ pipelined = <<>>
    /\ \E name \in SecondTools :
         \E args \in ArgsOf(name) :
            pipelined' = <<SettleSecond([pc |-> "idle", tool |-> name, args |-> args,
                                        loc |-> Start, calls |-> <<>>, replies |-> <<>>,
                                        out |-> [k |-> "none"], result |-> <<>>],
                                       handler(findTool(name)[1], args, Start, NoReply))>>
    /\ UNCHANGED <<inv, calls, replies, remote, previous>>

\* the remote answers the first invocation while the second is under way
ReplyFirst == pipelined # <<>> /\ RemoteReply

\* the remote answers the outstanding request of the second invocation
ReplySecond ==
    /\ pipelined # <<>>
    /\ pipelined[1].pc = "await"
    /\ Len(pipelined[1].calls) <= MaxFetches
    /\ LET slot == pipelined[1]
           req == slot.calls[Len(slot.calls)]
       IN  \E outcome \in Outcomes(req, remote) :
              LET reply == Settled(outcome)
                  logged == [slot EXCEPT !.replies =
                                Append(@, [req |-> req, ok |-> outcome.ok,
                                           raw |-> outcome.v, v |-> reply.v,
                                           after |-> Len(replies)])]
              IN  pipelined' = <<SettleSecond(logged,
                                    handler(findTool(slot.tool)[1], slot.args,
                                            localsOf(slot.loc, inv.loc), reply))>>
    /\ UNCHANGED <<inv, calls, replies, remote, previous>>

\* both results go back to the caller
DeliverBoth == pipelined # <<>> /\ pipelined[1].pc = "done" /\ Deliver

NextPipelined == FirstOfTwo \/ SecondCall \/ ReplyFirst \/ ReplySecond \/ DeliverBoth
SpecPipelined == Init /\ [][NextPipelined]_vars

NextRepeat == FirstCall \/ RemoteReply \/ Deliver \/ DeliverKept \/ CallAgain
SpecRepeat == Init /\ [][NextRepeat]_vars

(***************************************************************************)
(* Observations on a finished invocation.                                  *)
(***************************************************************************)
Done == inv.pc = "done"
Finished(name) == inv.pc = "done" /\ inv.tool = name

\* the envelope handed back, its text and, when the text is JSON, its fields
Result == inv.result[1]
IsError(env) == "isError" \in DOMAIN env /\ env.isError
TextOf(env) == env.content[1].text
BodyOf(env) == JSONparse(TextOf(env))

AllOk == \A i \in 1..Len(replies) : replies[i].ok
SomeFailed == \E i \in 1..Len(replies) : ~replies[i].ok

\* the first n items of the remote result set, in server order
ServerItems(n) == Arr([i \in 1..n |-> Item(i)])

Ceil(n, p) == (n + p - 1) \div p

(***************************************************************************)
(* Properties.                                                             *)
(***************************************************************************)

\* the engine ran to its end against a remote that reports totals and served
\* every page
EnginePages ==
    /\ Finished("getAllPaginated")
    /\ remote.mode = "total"
    /\ AllOk

EnginePageSize == inv.args.o.maxResults.n

\* C1 as stated: for every page size p and every result set of n items served in
\* pages with a total, getAllPaginated returns exactly the n items in server
\* order and issues exactly ceil(n/p) requests.
C1_CeilRequests ==
    EnginePages =>
        /\ inv.out = Return(ServerItems(remote.n))
        /\ Len(calls) = Ceil(remote.n, EnginePageSize)

\* C1, amended: getAllPaginated returns exactly the n items in server order and
\* issues exactly ceil(n/p) requests when n >= 1, and exactly one request when
\* n = 0.
C1_Requests ==
    EnginePages =>
        /\ inv.out = Return(ServerItems(remote.n))
        /\ Len(calls) = Max(1, Ceil(remote.n, EnginePageSize))
        /\ \A i \in 1..Len(calls) :
              calls[i].params = [maxResults |-> Num(EnginePageSize),
                                 startAt |-> Num((i - 1) * EnginePageSize)]

C1_Witness ==
    /\ EnginePages
    /\ remote.n >= 4
    /\ EnginePageSize = 2
    /\ Len(calls) >= 2

\* C2: get_all_test_steps on a test case with 250 steps, served with a total,
\* issues exactly three requests with startAt 0, 100 and 200 and returns the
\* 250 steps in server order with totalSteps 250.
C2_ThreePages ==
    (/\ Finished("get_all_test_steps")
     /\ remote.n = 2 * AllStepsPageSize + 50
     /\ remote.mode = "total"
     /\ calls # <<>>
     /\ AllOk)
    =>
        /\ Len(calls) = 3
        /\ \A i \in 1..3 :
              /\ calls[i].method = "GET"
              /\ calls[i].params = [maxResults |-> Num(AllStepsPageSize),
                                    startAt |-> Num((i - 1) * AllStepsPageSize)]
        /\ ~IsError(Result)
        /\ Get(BodyOf(Result), "testSteps") = ServerItems(2 * AllStepsPageSize + 50)
        /\ Get(BodyOf(Result), "totalSteps") = Num(2 * AllStepsPageSize + 50)

C2_Witness ==
    /\ Finished("get_all_test_steps")
    /\ remote.n = 2 * AllStepsPageSize + 50
    /\ remote.mode = "total"
    /\ Len(replies) = 3
    /\ AllOk
    /\ ~IsError(Result)

\* the text of an error envelope made from an error a handler threw itself: such
\* an error serialises without fields, and is not a failed property read
RejectionText(text) ==
    /\ "fmt" \in DOMAIN text
    /\ text.fmt.detail = JSONstringify(ErrorOf(<<>>))
    /\ text.fmt.message \notin {ArgsTypeError.message.s, ResponseTypeError.message.s}

\* the invocation ended in a handler's rejection of its arguments, handed back
\* directly or wrapped by createBddTestScript
ValidationRejected ==
    /\ Done
    /\ inv.tool \in ToolNames
    /\ inv.out.k = "return"
    /\ IsError(Result)
    /\ \/ RejectionText(TextOf(Result))
       \/ /\ JSONparses(TextOf(Result))
          /\ RejectionText(Get(BodyOf(Result), "originalResponse"))

\* C3: whenever a handler rejects its arguments by format validation, the
\* invocation has issued no remote call: no validation check of a handler runs
\* after that handler's first remote call.
C3_NoCallOnRejection == ValidationRejected => calls = <<>> /\ replies = <<>>

C3_Witness ==
    /\ ValidationRejected
    /\ inv.tool = "append_test_steps"
    /\ Get(inv.args, "steps") = Arr(Repeat(GoodStep, MaxStepsPerRequest + 1))

\* update_test_case has fetched the current record and submitted the merged one
UpdateSubmitted ==
    /\ inv.tool = "update_test_case"
    /\ Len(calls) = 2
    /\ calls[1].method = "GET"
    /\ calls[2].method = "PUT"

\* the record submitted, as serialised, and the record the GET returned
Submitted == JsonValue(calls[2].data)
Current == remote.testCase

\* the argument that overlays a field of the record
ArgumentFor(field) ==
    CASE field = "folder" -> "folderId"
      [] field = "key" -> "testCaseKey"
      [] OTHER -> field
OverlayFields ==
    {"key", "name", "description", "folder", "component", "labels", "objective",
     "precondition", "estimatedTime"}
SuppliedFor(field) == field \in OverlayFields /\ Supplied(inv.args, ArgumentFor(field))

\* C4: every field of the current record that the caller does not
\* supply is submitted with the value the GET returned, and every supplied
\* field with the supplied value (estimatedTime in milliseconds); no field of
\* the current record is dropped or nulled.
C4_EveryField ==
    UpdateSubmitted =>
        \A f \in DOMAIN Current.o :
            IF SuppliedFor(f)
            THEN Get(Submitted, f) =
                    CASE f = "estimatedTime" -> Num(Get(inv.args, f).n * MsPerMinute)
                      [] f = "folder" -> Obj([id |-> Get(inv.args, "folderId")])
                      [] OTHER -> Get(inv.args, ArgumentFor(f))
            ELSE Get(Submitted, f) = Current.o[f]

\* the fields submitted as they are, and those submitted as a reference by id
CarriedFields == {"id", "name", "objective", "precondition", "estimatedTime",
                  "description", "component", "owner"}
ReferenceFields == {"project", "status", "priority", "folder"}
DefaultedFields == {"labels", "customFields"}

\* What the merge does carry: the submitted record holds the fields id, key, name, project,
\* status, priority, folder, objective, precondition, estimatedTime, labels,
\* description, component, owner and customFields and no other field of the
\* current record. Of these, a field the caller does not supply carries the
\* value the GET returned, except that project, status, priority and folder
\* carry only the id of the current reference and that labels and customFields
\* are empty when the current record has none; a field the caller supplies
\* carries the supplied value, estimatedTime in milliseconds, a single label as
\* a one-element list and folderId as the id of folder.
C4_Merge ==
    UpdateSubmitted =>
        /\ DOMAIN Submitted.o \subseteq
                CarriedFields \cup ReferenceFields \cup DefaultedFields \cup {"key"}
        /\ Get(Submitted, "key") = Get(inv.args, "testCaseKey")
        /\ \A f \in CarriedFields :
              Get(Submitted, f) =
                IF ~SuppliedFor(f) THEN Get(JsonValue(Current), f)
                ELSE IF f = "estimatedTime" THEN Num(Get(inv.args, f).n * MsPerMinute)
                ELSE Get(inv.args, f)
        /\ \A f \in ReferenceFields :
              Get(Submitted, f) =
                Obj([id |-> IF SuppliedFor(f) THEN Get(inv.args, ArgumentFor(f))
                            ELSE Get(Get(Current, f), "id")])
        /\ Get(Submitted, "labels") =
              IF SuppliedFor("labels")
              THEN IF Get(inv.args, "labels").t = "array" THEN Get(inv.args, "labels")
                   ELSE Arr(<<Get(inv.args, "labels")>>)
              ELSE IF "labels" \in DOMAIN Current.o THEN Current.o.labels ELSE Arr(<<>>)
        /\ Get(Submitted, "customFields") =
              IF "customFields" \in DOMAIN Current.o THEN Current.o.customFields
              ELSE EmptyObj

\* a field of the current record that the caller did not supply is missing from
\* the submitted record
FieldDropped ==
    /\ UpdateSubmitted
    /\ \E f \in DOMAIN Current.o : ~SuppliedFor(f) /\ f \notin DOMAIN Submitted.o

\* append_test_steps was called with a valid key and k valid steps
AppendedSteps(k) ==
    /\ Finished("append_test_steps")
    /\ inv.args.t = "object"
    /\ Get(inv.args, "testCaseKey") = KeyOK
    /\ Get(inv.args, "steps").t = "array"
    /\ Len(Get(inv.args, "steps").a) = k
    /\ \A i \in 1..k : Truthy(Get(Get(inv.args, "steps").a[i], "description"))

RejectedWithoutCall ==
    /\ inv.out.k = "return"
    /\ IsError(Result)
    /\ RejectionText(TextOf(Result))
    /\ calls = <<>>

\* C5: append_test_steps with a valid key and exactly 100 valid steps issues one
\* POST and returns a success envelope when the remote accepts it; with 101 steps
\* and with 0 steps it returns a validation error envelope and issues no call.
C5_StepBounds ==
    /\ AppendedSteps(MaxStepsPerRequest) =>
          /\ Len(calls) = 1
          /\ calls[1].method = "POST"
          /\ Len(calls[1].data.o.items.a) = MaxStepsPerRequest
          /\ inv.out.k = "return"
          /\ AllOk => ~IsError(Result) /\ JSONparses(TextOf(Result))
                       /\ Get(BodyOf(Result), "stepsAdded") = Num(MaxStepsPerRequest)
    /\ AppendedSteps(MaxStepsPerRequest + 1) =>
          RejectedWithoutCall
          /\ TextOf(Result).fmt.message = <<"Maximum 100 steps can be added per request">>
    /\ AppendedSteps(0) =>
          RejectedWithoutCall
          /\ TextOf(Result).fmt.message = <<"At least one step must be provided">>

C5_Witness ==
    /\ AppendedSteps(MaxStepsPerRequest)
    /\ Len(calls) = 1
    /\ AllOk
    /\ ~IsError(Result)

\* a handler that sets a test script or appends test steps returned a success
\* envelope
ReplacedContent ==
    /\ Done
    /\ inv.tool \in {"create_test_script", "create_bdd_test_script", "append_test_steps"}
    /\ inv.out.k = "return"
    /\ ~IsError(Result)

\* C6: every success envelope of create_test_script and create_bdd_test_script
\* carries a warning that existing test steps were implicitly removed, and every
\* success envelope of append_test_steps a warning that an existing test script
\* was implicitly removed.
C6_Warning ==
    ReplacedContent =>
        /\ JSONparses(TextOf(Result))
        /\ Get(BodyOf(Result), "warning") =
              IF inv.tool = "append_test_steps"
              THEN Str(<<"If this test case had a test script, it has been implicitly removed">>)
              ELSE Str(<<"If this test case had existing test steps, they have been implicitly removed as test scripts and steps are mutually exclusive">>)

C6_Witness ==
    /\ ReplacedContent
    /\ inv.tool = "create_bdd_test_script"
    /\ Len(calls) = 1
    /\ AllOk

\* C7: for every registered handler, every argument value, an absent arguments
\* object included, and every remote outcome, the handler returns a content
\* envelope and never throws.
C7_NeverThrows ==
    (Done /\ inv.tool \in ToolNames) =>
        /\ inv.out.k = "return"
        /\ "content" \in DOMAIN inv.out.v

\* get_project, called without an arguments object, ended by throwing
HandlerThrew ==
    /\ Finished("get_project")
    /\ inv.args = Undef
    /\ inv.out.k = "throw"
    /\ calls = <<>>

\* C8: a handler result carries isError: true if and only if a validation check
\* failed or a remote call failed during the invocation, for every handler,
\* create_bdd_test_script included.
C8_IsErrorIff ==
    (Done /\ inv.tool \in ToolNames /\ inv.out.k = "return") =>
        (IsError(inv.out.v) <=> (ValidationRejected \/ SomeFailed))

\* update_test_case on a test case outside any folder: the GET succeeded, nothing
\* was rejected and nothing failed, and the result is an error envelope
ErrorWithoutFailure ==
    /\ Finished("update_test_case")
    /\ remote.testCase = RecordNoFolder
    /\ inv.args # Undef
    /\ Len(replies) = 1
    /\ AllOk
    /\ ~ValidationRejected
    /\ inv.out.k = "return"
    /\ IsError(inv.out.v)

LastReply == replies[Len(replies)]

\* C9: if any page fetch of get_all_test_steps or of getAllPaginated fails, on
\* the first page or a later one, the caller receives only the error, an error
\* envelope or a rejection made from the failed fetch alone: none of the items
\* accumulated from earlier pages are returned.
C9_OnlyError ==
    /\ (Finished("get_all_test_steps") /\ SomeFailed) =>
          /\ ~LastReply.ok
          /\ inv.out.k = "return"
          /\ IsError(Result)
          /\ ~JSONparses(TextOf(Result))
          /\ TextOf(Result).fmt.detail = JSONstringify(LastReply.v)
    /\ (Finished("getAllPaginated") /\ SomeFailed) =>
          /\ ~LastReply.ok
          /\ inv.out = Throw(LastReply.v)

C9_Witness ==
    /\ Finished("get_all_test_steps")
    /\ Len(replies) = 3
    /\ replies[1].ok
    /\ replies[2].ok
    /\ ~replies[3].ok
    /\ IsError(Result)

Populated(v) == ~Nullish(v)
ErrorFields == {"status", "statusText", "url", "method", "message", "requestData", "params"}

\* C10: every failed remote call, a non-2xx response or a network failure without
\* a response, rejects with an error object in which status, statusText, url,
\* method, message, requestData and params are all populated, plus responseData
\* when the server returned a body.
C10_AllPopulated ==
    \A i \in 1..Len(replies) :
        ~replies[i].ok =>
            /\ \A f \in ErrorFields : Populated(Get(replies[i].v, f))
            /\ "responseData" \in DOMAIN replies[i].v.o
                  <=> Truthy(GetOpt(Get(replies[i].raw, "response"), "data"))

\* C10, amended: every failed remote call rejects with an error object that has
\* the seven fields status, statusText, url, method, message, requestData and
\* params. url, method, message and params are always populated, from the
\* request and the failure. status and statusText are populated exactly when the
\* server responded and undefined on a network failure; requestData is populated
\* exactly when the request carried a body; responseData is present exactly when
\* the server returned a non-empty body.
C10_Fields ==
    \A i \in 1..Len(replies) :
        ~replies[i].ok =>
            LET e == replies[i].v
                q == replies[i].req
                responded == "response" \in DOMAIN replies[i].raw.o
                response == Get(replies[i].raw, "response")
            IN  /\ ErrorFields \subseteq DOMAIN e.o
                /\ Get(e, "url") = Str(q.url)
                /\ Get(e, "method") = Str(<<q.method>>)
                /\ Populated(Get(e, "message"))
                /\ Get(e, "params") = Obj(q.params)
                /\ Populated(Get(e, "status")) <=> responded
                /\ Populated(Get(e, "statusText")) <=> responded
                /\ responded => /\ Get(e, "status") = Get(response, "status")
                                /\ Get(e, "statusText") = Get(response, "statusText")
                /\ Populated(Get(e, "requestData")) <=> Populated(q.data)
                /\ "responseData" \in DOMAIN e.o
                      <=> (responded /\ Truthy(Get(response, "data")))
                /\ "responseData" \in DOMAIN e.o
                      => Get(e, "responseData") = Get(response, "data")

C10_Witness ==
    /\ Done
    /\ \E i \in 1..Len(replies) :
          /\ ~replies[i].ok
          /\ "response" \notin DOMAIN replies[i].raw.o
          /\ replies[i].req.method = "POST"
          /\ Populated(Get(replies[i].v, "requestData"))
          /\ ~Populated(Get(replies[i].v, "status"))

\* the HTTP attempts made for the request issued as number c
AttemptsFor(c) == {i \in 1..Len(replies) : replies[i].call = c}

\* C11: each invocation of request issues exactly one HTTP attempt; when the
\* attempt fails, the failure surfaces to the caller at once and no second
\* attempt is made, whatever maxRetries says.
C11_SingleAttempt ==
    /\ \A c \in 1..Len(calls) : Cardinality(AttemptsFor(c)) <= 1
    /\ \A i \in 1..Len(replies) :
          ~replies[i].ok =>
            /\ i = Len(replies)
            /\ Done
            /\ IF inv.tool = "getAllPaginated" THEN inv.out = Throw(replies[i].v)
               ELSE inv.out.k = "return" /\ IsError(inv.out.v)
    /\ Done /\ inv.tool # "get_reference_data" =>
          \A c \in 1..Len(calls) : Cardinality(AttemptsFor(c)) = 1

C11_Witness ==
    /\ Finished("get_test_case")
    /\ Len(calls) = 1
    /\ Len(replies) = 1
    /\ ~replies[1].ok
    /\ Get(replies[1].v, "status") = Num(500)

\* the query parameters listFolders and listTestCases pass on from their arguments
PassedOn == {"projectKey", "folderId"}

\* C12: the params request hands to the HTTP layer contain no key whose value is
\* null or undefined, and contain every key whose value is neither, with its
\* value unchanged.
C12_ParamsFiltered ==
    /\ \A i \in 1..Len(calls) :
          \A k \in DOMAIN calls[i].params : ~Nullish(calls[i].params[k])
    /\ (inv.tool \in {"list_folders", "list_test_cases"} /\ Len(calls) = 1) =>
          \A k \in PassedOn :
              ~Nullish(Get(inv.args, k)) =>
                  k \in DOMAIN calls[1].params /\ calls[1].params[k] = Get(inv.args, k)

\* list_folders, called without a folderId, handed the HTTP layer params with a
\* folderId key whose value is undefined
UndefinedParamSent ==
    /\ inv.tool = "list_folders"
    /\ Len(calls) = 1
    /\ Get(inv.args, "folderId") = Undef
    /\ "folderId" \in DOMAIN calls[1].params
    /\ calls[1].params.folderId = Undef

\* What the filter does ensure: every key of the given params reaches the HTTP
\* layer with its value unchanged, the null and undefined ones included.
ParamsPassedOn ==
    (inv.tool \in {"list_folders", "list_test_cases"} /\ Len(calls) = 1) =>
        \A k \in PassedOn :
            k \in DOMAIN calls[1].params /\ calls[1].params[k] = Get(inv.args, k)

\* C13: a call-tool request whose name matches no registered tool invokes no
\* handler and issues no remote call, and its result is an error result whose
\* message names the unknown tool; a request whose name matches a registered tool
\* invokes exactly that tool's handler, once, and returns the handler's result
\* unchanged.
C13_Dispatch ==
    /\ (inv.pc # "idle" /\ inv.tool \in RequestNames \ ToolNames) =>
          /\ Done
          /\ inv.ran = <<>>
          /\ calls = <<>>
          /\ IsError(Result)
          /\ TextOf(Result) = Str(<<"Error executing ", inv.tool, ": ", "Unknown tool: ", inv.tool>>)
    /\ (inv.pc # "idle" /\ inv.tool \in ToolNames) =>
          /\ inv.ran = <<inv.tool>>
          /\ (Done /\ inv.out.k = "return") => Result = inv.out.v

C13_Witness ==
    /\ Done
    /\ inv.tool = "no_such_tool"
    /\ IsError(Result)
    /\ calls = <<>>

\* a pagination run, its page size, and the items of the page a reply carried
PagingRun == inv.pc # "idle" /\ inv.tool \in {"getAllPaginated", "get_all_test_steps"}
PageSizeOf == IF inv.tool = "getAllPaginated" THEN EnginePageSize ELSE AllStepsPageSize
ItemsOf(page) == IF page.t = "array" THEN page.a ELSE Get(page, "values").a

\* reply i is a page with fewer items than asked for
ShortPage(i) == replies[i].ok /\ Len(ItemsOf(replies[i].v)) < PageSizeOf

\* reply i reports a total, and with its items the accumulated length reaches it
TotalReached(i) ==
    /\ replies[i].ok
    /\ Get(replies[i].v, "total").t = "number"
    /\ replies[i].req.params.startAt.n + Len(ItemsOf(replies[i].v))
            >= Get(replies[i].v, "total").n

\* C14: the pagination loop, of getAllPaginated and of get_all_test_steps,
\* terminates once the accumulated length reaches the total the remote reports or
\* once the remote returns a page with fewer than maxResults items, be that page
\* an envelope with values or a bare sequence: after such a page no further page
\* is fetched.
C14_Terminates ==
    PagingRun =>
        \A i \in 1..Len(replies) :
            (ShortPage(i) \/ TotalReached(i)) => (Done /\ i = Len(replies))

\* getAllPaginated received a short page as a bare sequence and fetches on
ShortPageIgnored ==
    /\ inv.tool = "getAllPaginated"
    /\ inv.pc = "await"
    /\ remote.mode = "bare"
    /\ Len(replies) >= 1
    /\ ShortPage(Len(replies))
    /\ Len(calls) = Len(replies) + 1

\* Against bare sequences getAllPaginated does not return at all, however many
\* pages it is served.
BareRunNeverReturns ==
    ~(Finished("getAllPaginated") /\ remote.mode = "bare" /\ AllOk)

\* Everywhere else the loops do stop on the page that meets the condition.
TerminatesOnEnvelopes ==
    (PagingRun /\ ~(inv.tool = "getAllPaginated" /\ remote.mode = "bare")) =>
        \A i \in 1..Len(replies) :
            (ShortPage(i) \/ TotalReached(i)) => (Done /\ i = Len(replies))

\* the length of the accumulated result set, while the run waits for its next
\* page and when it has returned
Accumulated ==
    IF inv.pc = "await"
    THEN IF inv.tool = "getAllPaginated" THEN Len(inv.loc.allResults) ELSE Len(inv.loc.allSteps)
    ELSE IF inv.tool = "getAllPaginated" THEN Len(inv.out.v.a)
    ELSE Get(BodyOf(Result), "totalSteps").n

\* the run has taken in a page that reports a total
TotalKnown ==
    /\ PagingRun
    /\ Len(replies) >= 1
    /\ LastReply.ok
    /\ Get(LastReply.v, "total").t = "number"
    /\ (Done => inv.out.k = "return" /\ ~IsError(inv.out.v))

\* C15: in every state of a pagination run in which the remote has reported a
\* total, the length of the accumulated result set does not exceed that total,
\* whatever sequence of page responses the remote returns.
C15_WithinTotal ==
    TotalKnown => Accumulated <= Get(LastReply.v, "total").n

\* the result set shrank during the run and the accumulated length exceeds the
\* total of the latest page
TotalExceeded ==
    /\ TotalKnown
    /\ remote.changes > 0
    /\ Accumulated > Get(LastReply.v, "total").n

\* C15, amended: in every state of a pagination run against a result set that
\* does not change during the run, in which the remote has reported a total, the
\* length of the accumulated result set does not exceed that total.
C15_WithinStableTotal ==
    (TotalKnown /\ remote.changes = 0) => Accumulated <= Get(LastReply.v, "total").n

C15_Witness ==
    /\ TotalKnown
    /\ remote.changes = 0
    /\ inv.pc = "await"
    /\ Len(replies) = 2
    /\ Accumulated > 0
    /\ Accumulated < Get(LastReply.v, "total").n

\* reply i is a page that is a bare sequence
BarePage(i) == replies[i].ok /\ replies[i].v.t = "array"

\* the items the run returned
Returned ==
    IF inv.tool = "getAllPaginated" THEN inv.out.v
    ELSE Get(BodyOf(Result), "testSteps")

\* the run ended with page i and returned the items of the pages up to it; the
\* pages before a bare one added nothing, as the first page is bare already
EndedWithPage(i) ==
    /\ Done
    /\ i = 1
    /\ Len(replies) = 1
    /\ inv.out.k = "return"
    /\ inv.tool # "getAllPaginated" => ~IsError(Result)
    /\ Returned = Arr(ItemsOf(replies[i].v))

\* C16: when a page response is a bare sequence, the pagination engine appends
\* its items and takes the total to be the sequence's length, so the run ends
\* after that page and returns exactly those items appended to what was
\* accumulated.
C16_BareEndsRun ==
    PagingRun => \A i \in 1..Len(replies) : BarePage(i) => EndedWithPage(i)

\* getAllPaginated took in a full page that is a bare sequence and fetches on
BareRunGoesOn ==
    /\ inv.tool = "getAllPaginated"
    /\ inv.pc = "await"
    /\ Len(replies) = 1
    /\ BarePage(1)
    /\ Len(ItemsOf(replies[1].v)) = EnginePageSize
    /\ Len(inv.loc.allResults) = EnginePageSize
    /\ Len(calls) = 2

\* The loop of get_all_test_steps does end with a bare page and returns its
\* items.
BareStepsRunEnds ==
    (PagingRun /\ inv.tool = "get_all_test_steps") =>
        \A i \in 1..Len(replies) : BarePage(i) => EndedWithPage(i)

\* a repeated call has finished, and the remote answered it as it answered the
\* call before
Repeated ==
    /\ Done
    /\ previous # <<>>
    /\ previous[1].tool = inv.tool
    /\ previous[1].args = inv.args
    /\ previous[1].remote = remote
    /\ previous[1].outcomes = [i \in 1..Len(replies) |-> <<replies[i].call, replies[i].raw>>]

CreateSubmitted ==
    /\ inv.tool = "create_test_case"
    /\ Len(calls) = 1
    /\ calls[1].method = "POST"

\* the record create_test_case submitted, as serialised
Created == JsonValue(calls[1].data)

\* the fields a caller of create_test_case may supply
CreateFields ==
    {"name", "projectKey", "description", "folderId", "component", "labels",
     "objective", "precondition", "estimatedTime"}

\* C18: for every argument set accepted by create_test_case, the record
\* submitted to the remote has every caller-supplied field equal to the
\* supplied value, field for field, with estimatedTime converted from minutes
\* to milliseconds; no supplied field is omitted or reshaped.
C18_RoundTrip ==
    CreateSubmitted =>
        \A f \in CreateFields :
            Supplied(inv.args, f) =>
                /\ f \in DOMAIN Created.o
                /\ Created.o[f] = IF f = "estimatedTime"
                                  THEN Num(Get(inv.args, f).n * MsPerMinute)
                                  ELSE Get(inv.args, f)

\* a field the caller supplied is missing from the submitted record
SuppliedFieldOmitted ==
    /\ CreateSubmitted
    /\ \E f \in CreateFields : Supplied(inv.args, f) /\ f \notin DOMAIN Created.o

\* What create_test_case does submit: name and projectKey always; of the other
\* fields those supplied with a truthy value and no others, each with the
\* supplied value, except estimatedTime in milliseconds, a single label as a
\* one-element list and a folderId given as digits as the number they spell.
CreateSubmitsTruthy ==
    CreateSubmitted =>
        /\ DOMAIN Created.o = {f \in CreateFields : Truthy(Get(inv.args, f))}
        /\ \A f \in DOMAIN Created.o :
              Created.o[f] =
                CASE f = "estimatedTime" -> Num(Get(inv.args, f).n * MsPerMinute)
                  [] f = "labels" ->
                        IF Get(inv.args, f).t = "array" THEN Get(inv.args, f)
                        ELSE Arr(<<Get(inv.args, f)>>)
                  [] f = "folderId" ->
                        IF Get(inv.args, f).t = "string"
                        THEN Num(ParseInt(ToStr(Get(inv.args, f))))
                        ELSE Get(inv.args, f)
                  [] OTHER -> Get(inv.args, f)

\* the caller supplied a number of minutes
MinutesSupplied ==
    /\ inv.args.t = "object"
    /\ Get(inv.args, "estimatedTime").t = "number"
    /\ Get(inv.args, "estimatedTime").n >= 0

\* the payload of create_test_case or update_test_case, once sent
EstimatePayloadSent == CreateSubmitted \/ UpdateSubmitted
EstimatePayload == IF CreateSubmitted THEN Created ELSE Submitted

\* C19: for every estimatedTime value m, an integer number of minutes
\* not below 0, supplied to create_test_case or update_test_case, the payload
\* sent to the remote carries estimatedTime = m * 60000 milliseconds.
C19_Milliseconds ==
    (EstimatePayloadSent /\ MinutesSupplied) =>
        Get(EstimatePayload, "estimatedTime") =
            Num(Get(inv.args, "estimatedTime").n * MsPerMinute)

\* create_test_case was given 0 minutes and its payload carries no estimatedTime
ZeroMinutesDropped ==
    /\ CreateSubmitted
    /\ MinutesSupplied
    /\ Get(inv.args, "estimatedTime") = Num(0)
    /\ "estimatedTime" \notin DOMAIN Created.o

\* update_test_case converts every number of minutes, 0 included, and
\* create_test_case every number above 0
ConvertsMinutes ==
    (EstimatePayloadSent /\ MinutesSupplied
        /\ (UpdateSubmitted \/ Get(inv.args, "estimatedTime").n > 0)) =>
        Get(EstimatePayload, "estimatedTime") =
            Num(Get(inv.args, "estimatedTime").n * MsPerMinute)

ConvertsMinutesSeen ==
    /\ UpdateSubmitted
    /\ MinutesSupplied
    /\ Get(inv.args, "estimatedTime") = Num(0)
    /\ Get(Submitted, "estimatedTime") = Num(0)

\* the handlers that take a testCaseKey
KeyTools ==
    {"get_test_case", "update_test_case", "get_test_steps", "append_test_steps",
     "get_all_test_steps", "get_test_script", "create_test_script",
     "create_bdd_test_script"}

\* the whole of v has the form [A-Z]+-T[0-9]+
StrictKey(v) ==
    /\ v.t = "string"
    /\ \E i \in 2..(Len(v.s) - 2) :
          /\ \A j \in 1..(i - 1) : v.s[j] \in UpperLetters
          /\ v.s[i] = "-"
          /\ v.s[i + 1] = "T"
          /\ \A j \in (i + 2)..Len(v.s) : v.s[j] \in Digits

\* a handler that takes a testCaseKey runs with a non-empty key
KeyGiven ==
    /\ inv.pc # "idle"
    /\ inv.tool \in KeyTools
    /\ inv.args.t = "object"
    /\ Truthy(Get(inv.args, "testCaseKey"))

\* the result is the 'Invalid testCaseKey format' error envelope
InvalidKeyEnvelope ==
    /\ IsError(Result)
    /\ \/ /\ "fmt" \in DOMAIN TextOf(Result)
          /\ TextOf(Result).fmt.message = KeyInvalid.message.s
       \/ /\ JSONparses(TextOf(Result))
          /\ "fmt" \in DOMAIN Get(BodyOf(Result), "originalResponse")
          /\ Get(BodyOf(Result), "originalResponse").fmt.message = KeyInvalid.message.s

\* C20: every handler that takes a testCaseKey accepts the key only
\* if the whole key has the form [A-Z]+-T[0-9]+; any other non-empty key
\* yields an 'Invalid testCaseKey format' error envelope and no remote call, so
\* no remote call is ever issued with a key outside that format.
C20_StrictKey ==
    (KeyGiven /\ ~StrictKey(Get(inv.args, "testCaseKey"))) =>
        /\ calls = <<>>
        /\ Done => InvalidKeyEnvelope

\* a remote call was issued with a key outside the format
LooseKeySent ==
    /\ KeyGiven
    /\ Get(inv.args, "testCaseKey") \in {KeyLower, KeyTrailing}
    /\ calls # <<>>

\* What the handlers do check: a non-empty key without a character followed by
\* -T and a digit anywhere in it is rejected with that envelope and no call.
UnmatchedKeyRejected ==
    (KeyGiven /\ ~testCaseKeyPattern(Get(inv.args, "testCaseKey"))) =>
        /\ calls = <<>>
        /\ Done => InvalidKeyEnvelope

UnmatchedKeySeen ==
    /\ KeyGiven
    /\ Done
    /\ Get(inv.args, "testCaseKey") = KeyNoDigits
    /\ InvalidKeyEnvelope

\* append_test_steps has posted its steps and the remote has accepted them
AppendSucceeded ==
    /\ Finished("append_test_steps")
    /\ ~IsError(Result)
    /\ Len(calls) = 1
    /\ calls[1].method = "POST"

\* the payload posted, as serialised, and the steps the test case had before
Posted == JsonValue(calls[1].data)
StepsBefore == ServerItems(remote.n).a

\* the step sequence the remote holds after a POST of payload: the mode of a
\* TestStepsInput says whether the items are added to the steps or replace them
StepsAfterPost(steps, payload) ==
    IF Get(payload, "mode") = Str(<<"APPEND">>)
    THEN steps \o Get(payload, "items").a
    ELSE Get(payload, "items").a

\* C21: after a successful append_test_steps call the test case's step
\* sequence on the remote is its previous step sequence followed by the
\* supplied steps in the supplied order: the request asks for the new steps to
\* be added to the existing sequence, never for the existing steps to be
\* replaced.
C21_Appends ==
    AppendSucceeded =>
        LET steps == Get(inv.args, "steps").a
            items == Get(Posted, "items").a
        IN  /\ Get(Posted, "mode") = Str(<<"APPEND">>)
            /\ Len(items) = Len(steps)
            /\ \A i \in 1..Len(steps) :
                  Get(Get(items[i], "inline"), "description") = Get(steps[i], "description")
            /\ StepsAfterPost(StepsBefore, Posted) = StepsBefore \o items

\* a successful append_test_steps asked the remote to replace the steps the
\* test case had
StepsReplaced ==
    /\ AppendSucceeded
    /\ StepsBefore # <<>>
    /\ Get(Posted, "mode") = Str(<<"OVERWRITE">>)
    /\ StepsAfterPost(StepsBefore, Posted) = Get(Posted, "items").a

\* What the request does carry: the supplied steps in the supplied order
PostsSuppliedSteps ==
    AppendSucceeded =>
        LET steps == Get(inv.args, "steps").a
            items == Get(Posted, "items").a
        IN  /\ Len(items) = Len(steps)
            /\ \A i \in 1..Len(steps) :
                  Get(Get(items[i], "inline"), "description") = Get(steps[i], "description")

\* the record update_test_case read with its GET
ReadByGet == replies[1].v

\* the record the remote holds once it has stored the PUT
RecordAfterPut == Submitted

\* the remote has stored the PUT of update_test_case
PutStored ==
    /\ UpdateSubmitted
    /\ Len(replies) = 2
    /\ replies[2].ok

\* C22: the fetch-then-merge path of update_test_case is open to lost
\* updates. The PUT carries, for a field the caller did not supply, the value
\* the GET read, whatever the remote holds when the PUT arrives: between the
\* GET and the PUT the handler issues no other request, and the PUT carries no
\* version or condition. So when another writer changes the field after the GET
\* and before the PUT, the PUT overwrites the change with the stale value.
C22_StaleOverwrite ==
    UpdateSubmitted =>
        /\ Len(calls) = 2
        /\ calls[2].params = NoParams
        /\ DOMAIN calls[2] = {"method", "url", "data", "params"}
        /\ \A f \in {"name", "objective", "precondition", "description"} :
              ~Supplied(inv.args, f) =>
                 Get(Submitted, f) = Get(JsonValue(ReadByGet), f)

\* the lost update: another writer changed the objective after the GET, the
\* caller did not supply one, and the remote has stored a PUT that carries the
\* objective the GET read
C22_Witness ==
    /\ PutStored
    /\ ~Supplied(inv.args, "objective")
    /\ remote.testCase.o.objective = ExternalObjective
    /\ Get(ReadByGet, "objective") # ExternalObjective
    /\ Get(RecordAfterPut, "objective") = Get(ReadByGet, "objective")

\* what a handler ends with when it runs alone and the remote answers its
\* requests, one after another, with the replies rs
RECURSIVE Alone(_, _, _, _, _)
Alone(name, args, loc, resp, rs) ==
    LET out == handler(name, args, loc, resp)
    IN  IF out.k # "await" THEN out
        ELSE IF rs = <<>> THEN out
        ELSE Alone(name, args, out.loc,
                   IF Head(rs).ok THEN Resolved(Head(rs).v) ELSE Rejected(Head(rs).v),
                   Tail(rs))

\* two pipelined invocations have both finished
BothDone ==
    /\ inv.pc = "done"
    /\ pipelined # <<>>
    /\ pipelined[1].pc = "done"

ExitCondition(i) == ShortPage(i) \/ TotalReached(i)
WentOn(i) == Len(calls) > i
StoppedWith(i) == Done /\ i = Len(replies) /\ Len(calls) = i

\* C24: after each fetched page the pagination loop stops exactly when the
\* accumulated length is >= the reported total or the page just fetched has
\* fewer than maxResults items, and otherwise issues the next request; when the
\* remote omits total, the loop keeps fetching while pages are full and stops
\* at the first short page. This holds for getAllPaginated and for the loop of
\* get_all_test_steps.
C24_StopsExactly ==
    PagingRun =>
        \A i \in 1..Len(replies) :
            replies[i].ok =>
                IF ExitCondition(i) THEN StoppedWith(i) ELSE WentOn(i)

\* get_all_test_steps was served a full page without a total by a remote that
\* holds more steps, and returned with that page
FullPageEndsRun ==
    /\ Finished("get_all_test_steps")
    /\ ~IsError(Result)
    /\ remote.mode = "nototal"
    /\ remote.n > AllStepsPageSize
    /\ Len(calls) = 1
    /\ Len(ItemsOf(replies[1].v)) = AllStepsPageSize
    /\ Get(BodyOf(Result), "totalSteps") = Num(AllStepsPageSize)

\* Where the remote reports a total, both loops stop exactly on the condition;
\* where it omits the total, getAllPaginated does as well.
StopsExactlyOnTotals ==
    (PagingRun /\ (remote.mode = "total"
                   \/ (remote.mode = "nototal" /\ inv.tool = "getAllPaginated"))) =>
        \A i \in 1..Len(replies) :
            replies[i].ok =>
                IF ExitCondition(i) THEN StoppedWith(i) ELSE WentOn(i)

StopsExactlySeen ==
    /\ Finished("getAllPaginated")
    /\ remote.mode = "nototal"
    /\ Len(replies) = 3
    /\ AllOk
    /\ ~ExitCondition(2)
    /\ ExitCondition(3)

\* the items of the pages served so far, in request order
RECURSIVE PagesConcat(_)
PagesConcat(k) ==
    IF k = 0 THEN <<>>
    ELSE PagesConcat(k - 1) \o (IF replies[k].ok THEN ItemsOf(replies[k].v) ELSE <<>>)

\* the run holds an accumulated result: it waits for a page or has returned
Accumulating ==
    /\ PagingRun
    /\ calls # <<>>
    /\ Done => (inv.out.k = "return" /\ ~IsError(inv.out.v))

AccumulatedItems ==
    IF inv.pc = "await"
    THEN IF inv.tool = "getAllPaginated" THEN inv.loc.allResults ELSE inv.loc.allSteps
    ELSE Returned.a

\* C25: in every pagination run the page requests are issued strictly one
\* after another with startAt = 0, maxResults, 2*maxResults, ..., each offset
\* requested at most once and maxResults constant across the run, and the
\* accumulated result is the concatenation of the pages' items in request
\* order, so no item is fetched or returned twice when the remote state is
\* unchanged during the run.
C25_InOrder ==
    (PagingRun /\ calls # <<>>) =>
        /\ Len(calls) <= Len(replies) + 1
        /\ \A i \in 1..Len(calls) :
              /\ calls[i].params.startAt = Num((i - 1) * PageSizeOf)
              /\ calls[i].params.maxResults = Num(PageSizeOf)
        /\ \A i \in 1..Len(replies) : replies[i].req = calls[i]
        /\ Accumulating =>
              /\ AccumulatedItems = PagesConcat(Len(replies))
              /\ \A i, j \in 1..Len(AccumulatedItems) :
                    i # j => AccumulatedItems[i] # AccumulatedItems[j]

C25_Witness ==
    /\ Finished("get_all_test_steps")
    /\ Accumulating
    /\ Len(calls) = 3
    /\ calls[3].params.startAt = Num(2 * AllStepsPageSize)
    /\ AccumulatedItems = ServerItems(remote.n).a
    /\ Len(AccumulatedItems) > 2 * AllStepsPageSize

\* config.maxMaxResults, the schemas' ceiling for projects, folders and test
\* cases; the ceiling of the test steps schema is the page size of
\* get_all_test_steps
maxMaxResults == 1000

PageTools ==
    {"list_projects", "list_folders", "list_test_cases", "get_test_steps",
     "get_all_test_steps"}

MaxResultsCeiling ==
    IF inv.tool \in {"get_test_steps", "get_all_test_steps"} THEN AllStepsPageSize
    ELSE maxMaxResults

\* C26: every page request a handler sends to the remote has maxResults
\* within the bounds its tool schema declares (at least 1; at most 100 for test
\* steps, at most 1000 for projects, folders and test cases) and startAt >= 0,
\* for every caller-supplied maxResults and startAt: out-of-range values are
\* rejected or never reach the remote.
C26_PageBounds ==
    inv.tool \in PageTools =>
        \A i \in 1..Len(calls) :
            /\ calls[i].params.maxResults.t = "number"
            /\ calls[i].params.maxResults.n >= 1
            /\ calls[i].params.maxResults.n <= MaxResultsCeiling
            /\ calls[i].params.startAt.t = "number"
            /\ calls[i].params.startAt.n >= 0

\* get_test_steps was asked for more steps than its schema allows and has sent
\* the request
OversizedPageSent ==
    /\ inv.tool = "get_test_steps"
    /\ inv.args.t = "object"
    /\ Get(inv.args, "maxResults") = Num(AllStepsPageSize + 1)
    /\ Len(calls) = 1
    /\ calls[1].params.maxResults = Num(AllStepsPageSize + 1)

\* What the single-page handlers send: the caller's maxResults and startAt as
\* they are, the defaults where the caller's value is absent or 0.
PageParamsFromArgs ==
    (inv.tool \in PageTools \ {"get_all_test_steps"} /\ calls # <<>>) =>
        /\ calls[1].params.maxResults =
              OrJS(Get(inv.args, "maxResults"), Num(defaultMaxResults))
        /\ calls[1].params.startAt = OrJS(Get(inv.args, "startAt"), Num(0))

\* the url of the test case update_test_case was called for
UpdateUrl == <<"/testcases/">> \o ToStr(Get(inv.args, "testCaseKey"))

\* the GET of update_test_case came back with a record that has the references
\* the merge reads
MergeReady ==
    /\ Len(replies) >= 1
    /\ replies[1].ok
    /\ replies[1].req = calls[1]
    /\ \A f \in {"project", "status", "priority"} : ~Nullish(Get(replies[1].v, f))
    /\ (Supplied(inv.args, "folderId") \/ ~Nullish(Get(replies[1].v, "folder")))

\* C27: every update_test_case invocation issues its remote calls in the
\* order: one GET of the test case, then at most one PUT of the same key; a PUT
\* is issued only after that GET has succeeded, and when validation fails, the
\* GET fails, or building the merged record fails, no PUT is issued and the
\* remote record is left unchanged.
C27_GetThenPut ==
    (inv.tool = "update_test_case" /\ inv.pc # "idle") =>
        /\ Len(calls) <= 2
        /\ Len(calls) >= 1 =>
              /\ calls[1].method = "GET"
              /\ calls[1].url = UpdateUrl
              /\ testCaseKeyPattern(Get(inv.args, "testCaseKey"))
        /\ Len(calls) = 2 =>
              /\ calls[2].method = "PUT"
              /\ calls[2].url = UpdateUrl
              /\ MergeReady
        /\ (Len(calls) = 1 /\ Len(replies) = 1) => (~MergeReady /\ Done /\ IsError(Result))

\* the GET succeeded, building the merged record failed, and no PUT was issued
C27_Witness ==
    /\ Finished("update_test_case")
    /\ Len(calls) = 1
    /\ Len(replies) = 1
    /\ replies[1].ok
    /\ Nullish(Get(replies[1].v, "folder"))
    /\ IsError(Result)
    /\ \A i \in 1..Len(calls) : calls[i].method = "GET"

\* the single-page list handlers, and those of them that take paging arguments
ListTools ==
    {"list_projects", "list_folders", "list_test_cases", "get_test_steps",
     "list_statuses", "list_priorities"}
PagedListTools == ListTools \ {"list_statuses", "list_priorities"}

\* a single-page list handler has returned the page the remote served
Listed ==
    /\ Done
    /\ inv.tool \in ListTools
    /\ Len(replies) = 1
    /\ replies[1].ok
    /\ ~IsError(Result)

ListResponse == replies[1].v
ListEnvelope == BodyOf(Result)

\* the remote's value of a paging field or, when the response has none, the
\* value requested
EchoOf(field) ==
    IF ListResponse.t = "object" /\ field \in DOMAIN ListResponse.o
    THEN ListResponse.o[field]
    ELSE calls[1].params[field]

\* C28: for every successful call of a single-page list handler the
\* envelope's total field is present and equals the remote's reported total
\* when the response is an envelope, including total = 0, and equals the
\* sequence length when the response is a bare sequence; startAt and maxResults
\* echo the remote's values or, when absent, the values requested.
C28_ListTotals ==
    Listed =>
        /\ (ListResponse.t = "object" /\ "total" \in DOMAIN ListResponse.o) =>
              /\ "total" \in DOMAIN ListEnvelope.o
              /\ ListEnvelope.o.total = ListResponse.o.total
        /\ ListResponse.t = "array" =>
              /\ "total" \in DOMAIN ListEnvelope.o
              /\ ListEnvelope.o.total = Num(Len(ListResponse.a))
        /\ inv.tool \in PagedListTools =>
              /\ Get(ListEnvelope, "startAt") = EchoOf("startAt")
              /\ Get(ListEnvelope, "maxResults") = EchoOf("maxResults")

\* the remote reported a total of 0 and the envelope has no total field
TotalOmitted ==
    /\ Listed
    /\ inv.tool = "list_projects"
    /\ ListResponse.t = "object"
    /\ Get(ListResponse, "total") = Num(0)
    /\ "total" \notin DOMAIN ListEnvelope.o

\* What the envelopes do carry: a total above 0 as reported, the length of a
\* bare sequence, the remote's maxResults or the one requested, and the remote's
\* startAt when it is above 0.
ListTotalsAboveZero ==
    Listed =>
        /\ (ListResponse.t = "object" /\ Truthy(Get(ListResponse, "total"))) =>
              Get(ListEnvelope, "total") = ListResponse.o.total
        /\ ListResponse.t = "array" =>
              Get(ListEnvelope, "total") = Num(Len(ListResponse.a))
        /\ inv.tool \in PagedListTools =>
              /\ Get(ListEnvelope, "maxResults") = EchoOf("maxResults")
              /\ Truthy(Get(ListResponse, "startAt")) =>
                    Get(ListEnvelope, "startAt") = ListResponse.o.startAt

\* get_reference_data is under way or has finished
ReferenceRun == inv.tool = "get_reference_data" /\ inv.pc # "idle"

\* the success envelope for the lists the remote holds
ReferenceEnvelope ==
    Obj([statuses   |-> ServerItems(remote.n),
         priorities |-> ServerItems(remote.n),
         summary    |-> Obj([totalStatuses |-> Num(remote.n),
                             totalPriorities |-> Num(remote.n)]),
         usage      |-> Str(<<"Use these values for statusName and priorityName fields when creating/updating test cases">>)])

\* C29: get_reference_data issues the statuses request and the
\* priorities request concurrently and returns a success envelope containing
\* both lists with their counts only when both succeed; the envelope is the
\* same for either completion order of the two responses, and if either
\* request fails the result is an error envelope (isError: true) that contains
\* neither list.
C29_BothOrNeither ==
    ReferenceRun =>
        /\ calls = <<client_getStatuses, client_getPriorities>>
        /\ Done =>
              IF AllOk
              THEN /\ Len(replies) = 2
                   /\ {replies[1].req, replies[2].req} = {calls[1], calls[2]}
                   /\ ~IsError(Result)
                   /\ BodyOf(Result) = ReferenceEnvelope
              ELSE /\ ~LastReply.ok
                   /\ IsError(Result)
                   /\ ~JSONparses(TextOf(Result))
                   /\ TextOf(Result).fmt.detail = JSONstringify(LastReply.v)

\* the priorities arrived before the statuses and the envelope holds both lists
C29_Witness ==
    /\ Finished("get_reference_data")
    /\ Len(replies) = 2
    /\ AllOk
    /\ replies[1].req = client_getPriorities
    /\ replies[2].req = client_getStatuses
    /\ remote.n = 3
    /\ BodyOf(Result) = ReferenceEnvelope

\* the statuses arrived, the priorities failed, and the result is the error alone
C29_PartialFailure ==
    /\ Finished("get_reference_data")
    /\ Len(replies) = 2
    /\ replies[1].ok
    /\ replies[1].req = client_getStatuses
    /\ ~replies[2].ok
    /\ IsError(Result)

\* get_all_test_steps has passed its validation and every page so far arrived
StepsRun ==
    /\ inv.tool = "get_all_test_steps"
    /\ inv.pc # "idle"
    /\ calls # <<>>
    /\ AllOk

\* where getAllPaginated, run with the page size of get_all_test_steps, stands
\* after the page responses get_all_test_steps has been served
EngineOnSamePages ==
    Alone("getAllPaginated", Obj([maxResults |-> Num(AllStepsPageSize)]), Start, NoReply,
          replies)

\* the two loops stand at the same point: both have stopped with the same
\* items, or both ask for the same next page with the same items accumulated
SamePoint ==
    IF Done
    THEN /\ EngineOnSamePages.k = "return"
         /\ inv.out.k = "return"
         /\ ~IsError(Result)
         /\ EngineOnSamePages.v = Returned
    ELSE /\ EngineOnSamePages.k = "await"
         /\ EngineOnSamePages.reqs[1].params = calls[Len(calls)].params
         /\ EngineOnSamePages.loc.allResults = inv.loc.allSteps

\* C30: the inline pagination loop of get_all_test_steps and
\* ZephyrClient.getAllPaginated run with maxResults = 100 are equivalent: for
\* every sequence of page responses the remote may return, both issue the same
\* page requests, stop after the same page, and accumulate the same item
\* sequence.
C30_Equivalent == StepsRun => SamePoint

\* get_all_test_steps has stopped after a full page without total and
\* getAllPaginated, served the same page, asks for the next one
LoopsDiverge ==
    /\ StepsRun
    /\ Done
    /\ remote.mode = "nototal"
    /\ Len(replies) = 1
    /\ Len(ItemsOf(replies[1].v)) = AllStepsPageSize
    /\ EngineOnSamePages.k = "await"
    /\ EngineOnSamePages.reqs[1].params.startAt = Num(AllStepsPageSize)

\* On pages that report a total the two loops are equivalent.
EquivalentOnTotals == (StepsRun /\ remote.mode = "total") => SamePoint

EquivalentOnTotalsSeen ==
    /\ StepsRun
    /\ Done
    /\ remote.mode = "total"
    /\ Len(replies) = 3
    /\ SamePoint
====
